---- MODULE Spec2Model ----
(***************************************************************************)
(* Uninformed search in a grid environment: the Grid of grid.py and the    *)
(* six search algorithms of algorithms.py (BFS, DFS, UCS, DLS, IDDFS,      *)
(* Bidirectional), with dynamic obstacles spawning during the search.      *)
(*                                                                         *)
(* A position (x, y) is the tuple <<x, y>>.  Python's None, where a        *)
(* position is expected, is the tuple None == <<-1, -1>>, which is never a *)
(* position of a grid.  A dict is a function whose DOMAIN is its key set.  *)
(* One action is one iteration of a search() main loop (IDDFS: one         *)
(* iteration of its for loop, the whole recursive traversal included), one *)
(* iteration of a path-reconstruction loop, or the return of search().     *)
(***************************************************************************)
EXTENDS Integers, Sequences, FiniteSets, TLC

\* ------------------------------------------------------------------ bounds
\* At most MaxWalls static walls are placed before the search.
MaxWalls == 1
\* At most MaxSpawns dynamic obstacles spawn during one search.
MaxSpawns == 1
\* DepthLimitedSearch is constructed with depth_limit in 0..MaxDepthLimit.
MaxDepthLimit == 2
\* search() is called at most MaxSearches times on one algorithm instance.
MaxSearches == 2
\* add_walls_randomly is called with count in 0..MaxCount.
MaxCount == 2
\* The integers inside the items handed to _extract_node_from_item: 0..MaxInt.
MaxInt == 1

\* ------------------------------------------------------------ Python values
None == <<-1, -1>>

Range(s) == {s[i] : i \in 1..Len(s)}

\* A faulty variant of Reverse: the sequence in its own order.
Unreversed(s) == s

\* reversed(s), and the list s.reverse() leaves.
Reverse(s) == [i \in 1..Len(s) |-> s[Len(s) + 1 - i]]

Max(a, b) == IF a > b THEN a ELSE b

\* dict.get(key): the value, or None for a missing key.
Get(d, k) == IF k \in DOMAIN d THEN d[k] ELSE None

\* d[k] = v on a dict.
Put(d, k, v) == [x \in DOMAIN d \cup {k} |-> IF x = k THEN v ELSE d[x]]

EmptyDict == [x \in {} |-> None]

\* ------------------------------------------------------------------- Grid
Algorithms == {"BFS", "DFS", "UCS", "DLS", "IDDFS", "BIDIR"}

VARIABLES
    alg,                   \* which SearchAlgorithm subclass runs
    width, height,         \* Grid.width, Grid.height
    start, target,         \* Grid.start, Grid.target
    walls,                 \* Grid.walls
    dynamic_obstacles,     \* Grid.dynamic_obstacles
    spawn_enabled,         \* Grid.dynamic_spawn_probability > 0
    spawn_choices,         \* the cells random.choice returns in
                           \* spawn_dynamic_obstacle, in their order, where the
                           \* state of the random generator fixes them; <<>>
                           \* where any cell may be chosen
    depth_limit,           \* DepthLimitedSearch.depth_limit
    pc,                    \* "construct", "grid", "extract", "loop", "walk",
                           \* "walk_back", "done", "raised"
    frontier,              \* the frontier of BFS, DFS, UCS, DLS
    in_frontier,           \* in_frontier of BFS, DFS, DLS
    explored,              \* self.explored
    parent_map,            \* self.parent_map
    cost_map, counter,     \* UCS
    frontier_history,      \* self.frontier_history
    dynamic_obstacles_encountered,
    limit, all_explored,   \* IDDFS: the next limit of the for loop
    forward_frontier, backward_frontier,
    forward_explored, backward_explored,
    forward_in_frontier, backward_in_frontier,
    forward_parent, backward_parent,
    meeting_point,
    walk_pos, path,        \* pos and path of a reconstruction loop
    path_forward,          \* Bidirectional: the reversed forward chain
    result,                \* the SearchResult
    exception,             \* the exception search() raised, or "none"
    checks,                \* the _check_dynamic_obstacles calls of the latest
                           \* main-loop iteration, in call order
    returned,              \* the results of the earlier search() calls on
                           \* this algorithm instance, as they were returned
    neighbors_call,        \* the get_neighbors call made on the Grid as the
                           \* latest call on it: its argument and what it
                           \* returned, or NoCall
    expansions,            \* the expansions of this run of a frontier-based
                           \* algorithm, in their order: <<direction, position>>
                           \* for each position a main loop marked explored
    extract_call           \* a direct call of _extract_node_from_item: its
                           \* argument, whether it has returned, and what it
                           \* returned

gridVars == <<alg, width, height, start, target, walls, spawn_enabled, depth_limit,
              spawn_choices>>

bidirVars == <<forward_frontier, backward_frontier, forward_explored,
               backward_explored, forward_in_frontier, backward_in_frontier,
               forward_parent, backward_parent, meeting_point, path_forward>>

ucsVars == <<cost_map, counter>>

iddfsVars == <<limit, all_explored>>

vars == <<alg, width, height, start, target, walls, dynamic_obstacles,
          spawn_enabled, spawn_choices, depth_limit, pc, frontier, in_frontier, explored,
          parent_map, cost_map, counter, frontier_history,
          dynamic_obstacles_encountered, limit, all_explored,
          forward_frontier, backward_frontier, forward_explored,
          backward_explored, forward_in_frontier, backward_in_frontier,
          forward_parent, backward_parent, meeting_point, walk_pos, path,
          path_forward, result, exception, checks, returned, neighbors_call, expansions,
          extract_call>>

CellsOf(w, h) == {<<x, y>> : x \in 0..(w - 1), y \in 0..(h - 1)}

Cells == CellsOf(width, height)

\* Grid._is_valid_position
IsValidPosition(pos) ==
    0 <= pos[1] /\ pos[1] < width /\ 0 <= pos[2] /\ pos[2] < height

\* Grid.is_blocked, with the dynamic obstacles `obst` of the moment of the call
IsBlocked(pos, obst) ==
    IF ~IsValidPosition(pos) THEN TRUE ELSE pos \in walls \/ pos \in obst

\* A faulty variant of Movements: the eight moves clockwise from Up.
MovementsClockwise(pos) ==
    LET x == pos[1]
        y == pos[2]
    IN  << <<x, y - 1>>, <<x + 1, y - 1>>, <<x + 1, y>>, <<x + 1, y + 1>>,
           <<x, y + 1>>, <<x - 1, y + 1>>, <<x - 1, y>>, <<x - 1, y - 1>> >>

\* The movement order of Grid.get_neighbors: Up, Right, Down, BottomRight,
\* Left, TopLeft, TopRight, BottomLeft.
Movements(pos) ==
    LET x == pos[1]
        y == pos[2]
    IN  << <<x, y - 1>>, <<x + 1, y>>, <<x, y + 1>>, <<x + 1, y + 1>>,
           <<x - 1, y>>, <<x - 1, y - 1>>, <<x + 1, y - 1>>, <<x - 1, y + 1>> >>

KeepUnblocked(p, obst) == IsValidPosition(p) /\ ~IsBlocked(p, obst)

\* Grid.get_neighbors
GetNeighbors(pos, obst) ==
    SelectSeq(Movements(pos), LAMBDA p : KeepUnblocked(p, obst))

\* A faulty variant of EmptyCells: the target counts as an empty cell.
EmptyCellsWithTarget(obst) ==
    {pos \in Cells : pos \notin walls /\ pos \notin obst /\ pos # start}

\* Grid.spawn_dynamic_obstacle: the cells a new obstacle may be placed on.
EmptyCells(obst) ==
    {pos \in Cells : pos \notin walls /\ pos \notin obst /\ pos # start /\ pos # target}

\* Grid.spawn_dynamic_obstacle: its possible return values, None included.
\* The random draw and the random choice are the nondeterminism; where the
\* generator's state fixes the choices, the draw alone is: every obstacle of
\* a search is one choice, so that the next choice is the one after as many
\* as there are obstacles.
SpawnOutcomes(obst) ==
    {None} \cup (IF ~spawn_enabled THEN {}
                 ELSE IF spawn_choices = <<>>
                 THEN (IF Cardinality(obst) < MaxSpawns THEN EmptyCells(obst) ELSE {})
                 ELSE IF Cardinality(obst) < Len(spawn_choices)
                 THEN {spawn_choices[Cardinality(obst) + 1]} \cap EmptyCells(obst)
                 ELSE {})

\* The grid after spawn_dynamic_obstacle returned `o`.
Spawned(obst, o) == IF o = None THEN obst ELSE obst \cup {o}

\* ------------------------------------------------- SearchAlgorithm (base)
\* No get_neighbors call is on record.
NoCall == [pos |-> None, neighbors |-> <<>>]

\* Python values as the isinstance and len tests of _extract_node_from_item
\* tell them apart: an int, None, or a tuple of values.
PyInt(n) == [type |-> "int", val |-> n, items |-> <<>>]

PyNone == [type |-> "NoneType", val |-> 0, items |-> <<>>]

PyTuple(s) == [type |-> "tuple", val |-> 0, items |-> s]

\* isinstance(v, tuple) and len(v) == n
IsTupleOfLen(v, n) == v.type = "tuple" /\ Len(v.items) = n

\* isinstance(v, int)
IsInt(v) == v.type = "int"

\* A faulty variant of ExtractNodeByShape: the second test does not look at
\* what item[0] is, so that every pair counts as a wrapped (node, depth) entry.
ExtractNodeFirstOfPair(item) ==
    IF IsTupleOfLen(item, 3) /\ IsTupleOfLen(item.items[3], 2)
    THEN item.items[3]
    ELSE IF IsTupleOfLen(item, 2) /\ IsInt(item.items[2])
    THEN item.items[1]
    ELSE IF IsTupleOfLen(item, 2) /\ IsInt(item.items[1]) /\ IsInt(item.items[2])
    THEN item
    ELSE PyNone

\* SearchAlgorithm._extract_node_from_item on a Python value, by the tests of
\* the code in their order: a 3-tuple whose last item is a pair gives that
\* pair; a pair of a pair and an int gives the inner pair; a pair of two ints
\* gives itself; anything else gives None.
ExtractNodeByShape(item) ==
    IF IsTupleOfLen(item, 3) /\ IsTupleOfLen(item.items[3], 2)
    THEN item.items[3]
    ELSE IF /\ IsTupleOfLen(item, 2)
            /\ IsTupleOfLen(item.items[1], 2)
            /\ IsInt(item.items[2])
    THEN item.items[1]
    ELSE IF IsTupleOfLen(item, 2) /\ IsInt(item.items[1]) /\ IsInt(item.items[2])
    THEN item
    ELSE PyNone

\* No _extract_node_from_item call is on record.
NoExtract == [item |-> PyNone, called |-> FALSE, node |-> PyNone]

\* The three shapes of a frontier item: a plain node (x, y) of BFS, DFS and
\* Bidirectional; (cost, counter, node) of UCS; (node, depth) of DLS.
Item(node, fmt, cost, tag) ==
    CASE fmt = "plain" -> node
      [] fmt = "ucs"   -> <<cost, tag, node>>
      [] fmt = "dls"   -> <<node, cost>>

\* SearchAlgorithm._extract_node_from_item on an item of shape `fmt`: the
\* isinstance/len tests of the code select the branch by the item's shape.
ExtractNodeFromItem(item, fmt) ==
    CASE fmt = "ucs"   -> item[3]
      [] fmt = "dls"   -> item[1]
      [] fmt = "plain" -> item

\* SearchAlgorithm._check_dynamic_obstacles, the deque branch: the items that
\* are not blocked are appended again, in their order.
PurgeDeque(f, obst) == SelectSeq(f, LAMBDA item : ~IsBlocked(item, obst))

\* A faulty variant of KeepItem: blocked items stay in the list.
KeepEveryItem(item, fmt, obst) == TRUE

KeepItem(item, fmt, obst) == ~IsBlocked(ExtractNodeFromItem(item, fmt), obst)

\* SearchAlgorithm._check_dynamic_obstacles, the list branch: the items whose
\* node is not blocked are appended again, in their order (no heapify).
PurgeList(f, fmt, obst) == SelectSeq(f, LAMBDA item : KeepItem(item, fmt, obst))

\* SearchAlgorithm._check_dynamic_obstacles(frontier) when spawn_dynamic_obstacle
\* returned `o`: the frontier it leaves.  `kind` is "deque" or "list".
CheckDynamicObstacles(f, kind, fmt, o, obst) ==
    IF o = None THEN f
    ELSE IF kind = "deque" THEN PurgeDeque(f, obst)
    ELSE PurgeList(f, fmt, obst)

\* A faulty variant of Encountered: whatever spawn_dynamic_obstacle returned is
\* appended, None included.
EncounteredAlways(log, o) == Append(log, o)

\* ... and the obstacle log it leaves.
Encountered(log, o) == IF o = None THEN log ELSE Append(log, o)

\* A faulty variant of CheckCall: the spawned obstacle is marked explored.
CheckCallMarking(f, kind, fmt, o, obst, log, expl, pm) ==
    [frontier                      |-> CheckDynamicObstacles(f, kind, fmt, o, obst),
     dynamic_obstacles_encountered |-> Encountered(log, o),
     explored                      |-> IF o = None THEN expl ELSE expl \cup {o},
     parent_map                    |-> pm]

\* SearchAlgorithm._check_dynamic_obstacles(frontier) as a whole, when
\* spawn_dynamic_obstacle returned `o` and left the obstacles `obst`: what the
\* call leaves of the frontier, the obstacle log, self.explored and
\* self.parent_map.
CheckCall(f, kind, fmt, o, obst, log, expl, pm) ==
    [frontier                      |-> CheckDynamicObstacles(f, kind, fmt, o, obst),
     dynamic_obstacles_encountered |-> Encountered(log, o),
     explored                      |-> expl,
     parent_map                    |-> pm]

\* One _check_dynamic_obstacles call as `checks` records it: what
\* spawn_dynamic_obstacle returned, the obstacles it left, and the state of
\* the algorithm before and after the call.
CallRecord(f, kind, fmt, o, obst, log, expl, pm) ==
    [spawned   |-> o, kind |-> kind, fmt |-> fmt, obstacles |-> obst,
     before    |-> [frontier |-> f, dynamic_obstacles_encountered |-> log,
                    explored |-> expl, parent_map |-> pm],
     after     |-> CheckCall(f, kind, fmt, o, obst, log, expl, pm)]

\* The set of nodes of a frontier, as the snapshots of frontier_history take it.
NodesOf(f, fmt) == {ExtractNodeFromItem(f[i], fmt) : i \in 1..Len(f)}

\* The neighbour loop of BFS, DFS and DLS: a neighbour that is neither explored
\* nor in in_frontier gets `current` as parent and is appended to the frontier.
\* st = [frontier, in_frontier, parent_map].
RECURSIVE ExpandLoop(_, _, _, _, _, _, _)
ExpandLoop(st, expl, current, nbrs, i, fmt, depth) ==
    IF i > Len(nbrs) THEN st
    ELSE LET neighbor == nbrs[i]
         IN  IF neighbor \notin expl /\ neighbor \notin st.in_frontier
             THEN ExpandLoop(
                    [frontier    |-> Append(st.frontier, Item(neighbor, fmt, depth, 0)),
                     in_frontier |-> st.in_frontier \cup {neighbor},
                     parent_map  |-> Put(st.parent_map, neighbor, current)],
                    expl, current, nbrs, i + 1, fmt, depth)
             ELSE ExpandLoop(st, expl, current, nbrs, i + 1, fmt, depth)

\* A faulty variant of DequePopLeft: pop() where popleft() is meant (LIFO for FIFO).
DequePopRight(f) == [item |-> f[Len(f)], rest |-> SubSeq(f, 1, Len(f) - 1)]

\* deque.popleft() on a non-empty deque: the item and the deque it leaves.
DequePopLeft(f) == [item |-> Head(f), rest |-> Tail(f)]

EmptyResult ==
    [path |-> <<>>, explored |-> {}, total_nodes_explored |-> 0, found |-> FALSE]

\* frontier.popleft() / frontier.pop() / heappop(frontier) on an empty frontier
RaiseIndexError ==
    /\ pc' = "raised"
    /\ exception' = "IndexError"

\* ------------------------------------------------------ BreadthFirstSearch
\* One iteration of the while loop of BreadthFirstSearch.search.
BFSStep ==
    /\ alg = "BFS" /\ pc = "loop" /\ frontier # <<>>
    /\ \E o \in SpawnOutcomes(dynamic_obstacles) :
        LET obst == Spawned(dynamic_obstacles, o)
            call == CallRecord(frontier, "deque", "plain", o, obst,
                               dynamic_obstacles_encountered, explored, parent_map)
            f1   == call.after.frontier
            expl1 == call.after.explored
            pm1  == call.after.parent_map
        IN  /\ dynamic_obstacles' = obst
            /\ dynamic_obstacles_encountered' = call.after.dynamic_obstacles_encountered
            /\ checks' = <<call>>
            /\ frontier_history' = Append(frontier_history, Range(f1))
            /\ IF f1 = <<>>
               THEN /\ RaiseIndexError
                    /\ frontier' = f1
                    /\ explored' = expl1
                    /\ UNCHANGED expansions
                    /\ parent_map' = pm1
                    /\ UNCHANGED <<in_frontier, walk_pos, path>>
               ELSE LET current == DequePopLeft(f1).item
                        f2      == DequePopLeft(f1).rest
                        inf2    == in_frontier \ {current}
                    IN  IF current \in expl1
                        THEN /\ frontier' = f2
                             /\ in_frontier' = inf2
                             /\ explored' = expl1
                             /\ UNCHANGED expansions
                             /\ parent_map' = pm1
                             /\ UNCHANGED <<pc, walk_pos, path, exception>>
                        ELSE IF current = target
                        THEN /\ frontier' = f2
                             /\ in_frontier' = inf2
                             /\ explored' = expl1 \cup {current}
                             /\ expansions' = Append(expansions, <<"main", current>>)
                             /\ pc' = "walk"
                             /\ walk_pos' = current
                             /\ path' = <<>>
                             /\ parent_map' = pm1
                             /\ UNCHANGED <<exception>>
                        ELSE LET st == ExpandLoop(
                                         [frontier |-> f2, in_frontier |-> inf2,
                                          parent_map |-> pm1],
                                         expl1 \cup {current}, current,
                                         GetNeighbors(current, obst), 1, "plain", 0)
                             IN  /\ frontier' = st.frontier
                                 /\ in_frontier' = st.in_frontier
                                 /\ parent_map' = st.parent_map
                                 /\ explored' = expl1 \cup {current}
                                 /\ expansions' = Append(expansions, <<"main", current>>)
                                 /\ UNCHANGED <<pc, walk_pos, path, exception>>
    /\ UNCHANGED <<gridVars, returned, neighbors_call, extract_call, bidirVars, ucsVars, iddfsVars, result>>

\* ------------------------------------------------------- DepthFirstSearch
\* One iteration of the while loop of DepthFirstSearch.search.
DFSStep ==
    /\ alg = "DFS" /\ pc = "loop" /\ frontier # <<>>
    /\ \E o \in SpawnOutcomes(dynamic_obstacles) :
        LET obst == Spawned(dynamic_obstacles, o)
            call == CallRecord(frontier, "list", "plain", o, obst,
                               dynamic_obstacles_encountered, explored, parent_map)
            f1   == call.after.frontier
            expl1 == call.after.explored
            pm1  == call.after.parent_map
        IN  /\ dynamic_obstacles' = obst
            /\ dynamic_obstacles_encountered' = call.after.dynamic_obstacles_encountered
            /\ checks' = <<call>>
            /\ frontier_history' = Append(frontier_history, Range(f1))
            /\ IF f1 = <<>>
               THEN /\ RaiseIndexError
                    /\ frontier' = f1
                    /\ explored' = expl1
                    /\ UNCHANGED expansions
                    /\ parent_map' = pm1
                    /\ UNCHANGED <<in_frontier, walk_pos, path>>
               ELSE LET current == f1[Len(f1)]
                        f2      == SubSeq(f1, 1, Len(f1) - 1)
                        inf2    == in_frontier \ {current}
                    IN  IF current \in expl1
                        THEN /\ frontier' = f2
                             /\ in_frontier' = inf2
                             /\ explored' = expl1
                             /\ UNCHANGED expansions
                             /\ parent_map' = pm1
                             /\ UNCHANGED <<pc, walk_pos, path, exception>>
                        ELSE IF current = target
                        THEN /\ frontier' = f2
                             /\ in_frontier' = inf2
                             /\ explored' = expl1 \cup {current}
                             /\ expansions' = Append(expansions, <<"main", current>>)
                             /\ pc' = "walk"
                             /\ walk_pos' = current
                             /\ path' = <<>>
                             /\ parent_map' = pm1
                             /\ UNCHANGED <<exception>>
                        ELSE LET st == ExpandLoop(
                                         [frontier |-> f2, in_frontier |-> inf2,
                                          parent_map |-> pm1],
                                         expl1 \cup {current}, current,
                                         Reverse(GetNeighbors(current, obst)), 1, "plain", 0)
                             IN  /\ frontier' = st.frontier
                                 /\ in_frontier' = st.in_frontier
                                 /\ parent_map' = st.parent_map
                                 /\ explored' = expl1 \cup {current}
                                 /\ expansions' = Append(expansions, <<"main", current>>)
                                 /\ UNCHANGED <<pc, walk_pos, path, exception>>
    /\ UNCHANGED <<gridVars, returned, neighbors_call, extract_call, bidirVars, ucsVars, iddfsVars, result>>

\* ------------------------------------------------------ DepthLimitedSearch
\* A faulty variant of DLSMayExpand: `<=` where `<` is meant.
DLSMayExpandInclusive(depth) == depth <= depth_limit

\* The depth test of DepthLimitedSearch.search: expand only below the limit.
DLSMayExpand(depth) == depth < depth_limit

\* One iteration of the while loop of DepthLimitedSearch.search.
DLSStep ==
    /\ alg = "DLS" /\ pc = "loop" /\ frontier # <<>>
    /\ \E o \in SpawnOutcomes(dynamic_obstacles) :
        LET obst == Spawned(dynamic_obstacles, o)
            call == CallRecord(frontier, "list", "dls", o, obst,
                               dynamic_obstacles_encountered, explored, parent_map)
            f1   == call.after.frontier
            expl1 == call.after.explored
            pm1  == call.after.parent_map
        IN  /\ dynamic_obstacles' = obst
            /\ dynamic_obstacles_encountered' = call.after.dynamic_obstacles_encountered
            /\ checks' = <<call>>
            /\ frontier_history' = Append(frontier_history, NodesOf(f1, "dls"))
            /\ IF f1 = <<>>
               THEN /\ RaiseIndexError
                    /\ frontier' = f1
                    /\ explored' = expl1
                    /\ UNCHANGED expansions
                    /\ parent_map' = pm1
                    /\ UNCHANGED <<in_frontier, walk_pos, path>>
               ELSE LET current == f1[Len(f1)][1]
                        depth   == f1[Len(f1)][2]
                        f2      == SubSeq(f1, 1, Len(f1) - 1)
                        inf2    == in_frontier \ {current}
                    IN  IF current \in expl1
                        THEN /\ frontier' = f2
                             /\ in_frontier' = inf2
                             /\ explored' = expl1
                             /\ UNCHANGED expansions
                             /\ parent_map' = pm1
                             /\ UNCHANGED <<pc, walk_pos, path, exception>>
                        ELSE IF current = target
                        THEN /\ frontier' = f2
                             /\ in_frontier' = inf2
                             /\ explored' = expl1 \cup {current}
                             /\ expansions' = Append(expansions, <<"main", current>>)
                             /\ pc' = "walk"
                             /\ walk_pos' = current
                             /\ path' = <<>>
                             /\ parent_map' = pm1
                             /\ UNCHANGED <<exception>>
                        ELSE LET st == IF DLSMayExpand(depth)
                                       THEN ExpandLoop(
                                              [frontier |-> f2, in_frontier |-> inf2,
                                               parent_map |-> pm1],
                                              expl1 \cup {current}, current,
                                              Reverse(GetNeighbors(current, obst)), 1,
                                              "dls", depth + 1)
                                       ELSE [frontier |-> f2, in_frontier |-> inf2,
                                             parent_map |-> pm1]
                             IN  /\ frontier' = st.frontier
                                 /\ in_frontier' = st.in_frontier
                                 /\ parent_map' = st.parent_map
                                 /\ explored' = expl1 \cup {current}
                                 /\ expansions' = Append(expansions, <<"main", current>>)
                                 /\ UNCHANGED <<pc, walk_pos, path, exception>>
    /\ UNCHANGED <<gridVars, returned, neighbors_call, extract_call, bidirVars, ucsVars, iddfsVars, result>>

\* -------------------------------------------------------- heapq (Python)
\* A faulty variant of ItemLess: the heap orders by the greatest cost first.
ItemGreater(a, b) == a[1] > b[1] \/ (a[1] = b[1] /\ a[2] < b[2])

\* The order of two (cost, counter, node) tuples: the counters differ, so the
\* nodes are never compared.
ItemLess(a, b) == a[1] < b[1] \/ (a[1] = b[1] /\ a[2] < b[2])

\* heapq._siftdown(heap, startpos, pos), positions counted from 0.
RECURSIVE SiftDown(_, _, _, _)
SiftDown(heap, startpos, pos, newitem) ==
    IF pos > startpos
    THEN LET parentpos == (pos - 1) \div 2
             parent    == heap[parentpos + 1]
         IN  IF ItemLess(newitem, parent)
             THEN SiftDown([heap EXCEPT ![pos + 1] = parent], startpos, parentpos, newitem)
             ELSE [heap EXCEPT ![pos + 1] = newitem]
    ELSE [heap EXCEPT ![pos + 1] = newitem]

\* heapq._siftup(heap, pos), positions counted from 0.
RECURSIVE SiftUp(_, _, _, _)
SiftUp(heap, startpos, pos, newitem) ==
    LET endpos   == Len(heap)
        childpos == 2 * pos + 1
    IN  IF childpos < endpos
        THEN LET rightpos == childpos + 1
                 c == IF rightpos < endpos /\ ~ItemLess(heap[childpos + 1], heap[rightpos + 1])
                      THEN rightpos ELSE childpos
             IN  SiftUp([heap EXCEPT ![pos + 1] = heap[c + 1]], startpos, c, newitem)
        ELSE SiftDown([heap EXCEPT ![pos + 1] = newitem], startpos, pos, newitem)

\* heapq.heappush(heap, item)
HeapPush(heap, item) == SiftDown(Append(heap, item), 0, Len(heap), item)

\* heapq.heappop(heap) on a non-empty heap: [item, heap].
HeapPop(heap) ==
    LET lastelt == heap[Len(heap)]
        rest    == SubSeq(heap, 1, Len(heap) - 1)
    IN  IF rest # <<>>
        THEN [item |-> rest[1], heap |-> SiftUp(rest, 0, 0, lastelt)]
        ELSE [item |-> lastelt, heap |-> rest]

\* ------------------------------------------------------- UniformCostSearch
\* A faulty variant of UCSBetter: a path of equal cost counts as better.
UCSBetterOrEqual(cm, neighbor, new_cost) ==
    neighbor \notin DOMAIN cm \/ new_cost <= cm[neighbor]

\* The test of the neighbour loop: a first path, or a strictly cheaper one.
UCSBetter(cm, neighbor, new_cost) ==
    neighbor \notin DOMAIN cm \/ new_cost < cm[neighbor]

\* The neighbour loop of UniformCostSearch.search.
\* st = [frontier, cost_map, parent_map, counter].
RECURSIVE UCSLoop(_, _, _, _, _)
UCSLoop(st, current, current_cost, nbrs, i) ==
    IF i > Len(nbrs) THEN st
    ELSE LET neighbor == nbrs[i]
             new_cost == current_cost + 1
         IN  IF UCSBetter(st.cost_map, neighbor, new_cost)
             THEN UCSLoop(
                    [frontier   |-> HeapPush(st.frontier, <<new_cost, st.counter, neighbor>>),
                     cost_map   |-> Put(st.cost_map, neighbor, new_cost),
                     parent_map |-> Put(st.parent_map, neighbor, current),
                     counter    |-> st.counter + 1],
                    current, current_cost, nbrs, i + 1)
             ELSE UCSLoop(st, current, current_cost, nbrs, i + 1)

\* One iteration of the while loop of UniformCostSearch.search.
UCSStep ==
    /\ alg = "UCS" /\ pc = "loop" /\ frontier # <<>>
    /\ \E o \in SpawnOutcomes(dynamic_obstacles) :
        LET obst == Spawned(dynamic_obstacles, o)
            call == CallRecord(frontier, "list", "ucs", o, obst,
                               dynamic_obstacles_encountered, explored, parent_map)
            f1   == call.after.frontier
            expl1 == call.after.explored
            pm1  == call.after.parent_map
        IN  /\ dynamic_obstacles' = obst
            /\ dynamic_obstacles_encountered' = call.after.dynamic_obstacles_encountered
            /\ checks' = <<call>>
            /\ frontier_history' = Append(frontier_history, NodesOf(f1, "ucs"))
            /\ IF f1 = <<>>
               THEN /\ RaiseIndexError
                    /\ frontier' = f1
                    /\ explored' = expl1
                    /\ UNCHANGED expansions
                    /\ parent_map' = pm1
                    /\ UNCHANGED <<cost_map, counter, walk_pos, path>>
               ELSE LET popped       == HeapPop(f1)
                        current_cost == popped.item[1]
                        current      == popped.item[3]
                        f2           == popped.heap
                    IN  IF current \in expl1
                        THEN /\ frontier' = f2
                             /\ explored' = expl1
                             /\ UNCHANGED expansions
                             /\ parent_map' = pm1
                             /\ UNCHANGED <<cost_map, counter, pc, walk_pos, path, exception>>
                        ELSE IF current \in DOMAIN cost_map /\ current_cost > cost_map[current]
                        THEN /\ frontier' = f2
                             /\ explored' = expl1
                             /\ UNCHANGED expansions
                             /\ parent_map' = pm1
                             /\ UNCHANGED <<cost_map, counter, pc, walk_pos, path, exception>>
                        ELSE IF current = target
                        THEN /\ frontier' = f2
                             /\ explored' = expl1 \cup {current}
                             /\ expansions' = Append(expansions, <<"main", current>>)
                             /\ pc' = "walk"
                             /\ walk_pos' = current
                             /\ path' = <<>>
                             /\ parent_map' = pm1
                             /\ UNCHANGED <<cost_map, counter, exception>>
                        ELSE LET st == UCSLoop(
                                         [frontier |-> f2, cost_map |-> cost_map,
                                          parent_map |-> pm1, counter |-> counter],
                                         current, current_cost,
                                         GetNeighbors(current, obst), 1)
                             IN  /\ frontier' = st.frontier
                                 /\ cost_map' = st.cost_map
                                 /\ parent_map' = st.parent_map
                                 /\ counter' = st.counter
                                 /\ explored' = expl1 \cup {current}
                                 /\ expansions' = Append(expansions, <<"main", current>>)
                                 /\ UNCHANGED <<pc, walk_pos, path, exception>>
    /\ UNCHANGED <<gridVars, returned, neighbors_call, extract_call, bidirVars, iddfsVars, in_frontier, result>>

\* ---------------------------------------------------- IterativeDeepeningDFS
\* A faulty variant of MaxDepth: the greater side of the grid, not doubled.
MaxDepthUndoubled == Max(width, height)

\* max_depth of IterativeDeepeningDFS.search
MaxDepth == Max(width, height) * 2

\* A faulty variant of ReconcileDue: every recursive call reconciles.
ReconcileEveryCall(expl) == TRUE

\* The reconciliation test of _dls_recursive: every tenth explored node.
ReconcileDue(expl) == Cardinality(expl) % 10 = 0

\* The recursive calls of one iteration that reconcile are those entered with
\* 0, 10, 20, ... explored nodes: at most this many in a grid.
ReconcileCalls == 1 + ((Cardinality(Cells) - 1) \div 10)

\* _dls_recursive and its neighbour loop.  st = [explored, parent_map, hist,
\* obst, log, found, valid, spawns, calls, checks]: spawns[k + 1] is what
\* spawn_dynamic_obstacle returns in the call entered with 10 * k explored
\* nodes; valid says that each was a possible return value at that moment.
RECURSIVE DlsRecursive(_, _, _)
RECURSIVE DlsNeighbours(_, _, _, _, _)
DlsRecursive(st, current, lim) ==
    LET due == ReconcileDue(st.explored)
        o   == IF due THEN st.spawns[(Cardinality(st.explored) \div 10) + 1] ELSE None
        call == CallRecord(<<>>, "list", "plain", o, Spawned(st.obst, o),
                           st.log, st.explored, st.parent_map)
        s1  == IF due
               THEN [st EXCEPT !.valid      = @ /\ (o \in SpawnOutcomes(st.obst)),
                               !.obst       = Spawned(@, o),
                               !.log        = call.after.dynamic_obstacles_encountered,
                               !.explored   = call.after.explored,
                               !.parent_map = call.after.parent_map,
                               !.calls      = @ + 1,
                               !.checks     = Append(@, call)]
               ELSE st
        s2  == [s1 EXCEPT !.explored = @ \cup {current},
                          !.hist     = Append(@, s1.explored \cup {current})]
    IN  IF current = target THEN [s2 EXCEPT !.found = TRUE]
        ELSE IF lim = 0 THEN s2
        ELSE DlsNeighbours(s2, current, lim, GetNeighbors(current, s2.obst), 1)

DlsNeighbours(st, current, lim, nbrs, i) ==
    IF i > Len(nbrs) THEN st
    ELSE LET neighbor == nbrs[i]
         IN  IF neighbor \notin st.explored
             THEN LET r == DlsRecursive(
                             [st EXCEPT !.parent_map = Put(@, neighbor, current)],
                             neighbor, lim - 1)
                  IN  IF r.found THEN r
                      ELSE DlsNeighbours(r, current, lim, nbrs, i + 1)
             ELSE DlsNeighbours(st, current, lim, nbrs, i + 1)

SpawnDomain == IF spawn_enabled THEN Cells \cup {None} ELSE {None}

\* One iteration of the for loop of IterativeDeepeningDFS.search.
IDDFSIteration ==
    /\ alg = "IDDFS" /\ pc = "loop" /\ limit <= MaxDepth
    /\ \E spawns \in [1..ReconcileCalls -> SpawnDomain] :
        LET r == DlsRecursive(
                   [explored |-> {}, parent_map |-> Put(EmptyDict, start, None),
                    hist |-> frontier_history, obst |-> dynamic_obstacles,
                    log |-> dynamic_obstacles_encountered, found |-> FALSE,
                    valid |-> TRUE, spawns |-> spawns, calls |-> 0,
                    checks |-> <<>>],
                   start, limit)
        IN  /\ r.valid
            /\ \A k \in 1..ReconcileCalls : k > r.calls => spawns[k] = None
            /\ explored' = r.explored
            /\ parent_map' = r.parent_map
            /\ frontier_history' = r.hist
            /\ dynamic_obstacles' = r.obst
            /\ dynamic_obstacles_encountered' = r.log
            /\ checks' = r.checks
            /\ all_explored' = all_explored \cup r.explored
            /\ IF r.found
               THEN /\ pc' = "walk"
                    /\ walk_pos' = target
                    /\ path' = <<>>
                    /\ UNCHANGED limit
               ELSE /\ limit' = limit + 1
                    /\ UNCHANGED <<pc, walk_pos, path>>
    /\ UNCHANGED <<gridVars, returned, neighbors_call, extract_call, expansions, bidirVars, ucsVars, frontier, in_frontier, result, exception>>

\* ----------------------------------------------------- BidirectionalSearch
\* The neighbour loop of one direction of BidirectionalSearch.search.
\* st = [frontier, in_frontier, parent, meeting]; own and opposite are the
\* explored sets of the expanding and of the other direction.
RECURSIVE BidirLoop(_, _, _, _, _, _)
BidirLoop(st, own, opposite, current, nbrs, i) ==
    IF i > Len(nbrs) THEN st
    ELSE LET neighbor == nbrs[i]
         IN  IF neighbor \in opposite
             THEN [st EXCEPT !.meeting = neighbor,
                             !.parent  = Put(@, neighbor, current)]
             ELSE IF neighbor \notin own /\ neighbor \notin st.in_frontier
             THEN BidirLoop(
                    [st EXCEPT !.frontier    = Append(@, neighbor),
                               !.in_frontier = @ \cup {neighbor},
                               !.parent      = Put(@, neighbor, current)],
                    own, opposite, current, nbrs, i + 1)
             ELSE BidirLoop(st, own, opposite, current, nbrs, i + 1)

\* A faulty variant of BidirExpand: the enqueued neighbours are marked
\* explored together with the popped node.
BidirExpandMarkingEnqueued(f, inf, par, own, opposite, obst) ==
    LET current == DequePopLeft(f).item
        f2      == DequePopLeft(f).rest
        inf2    == inf \ {current}
        st      == BidirLoop(
                     [frontier |-> f2, in_frontier |-> inf2, parent |-> par,
                      meeting |-> None],
                     own \cup {current}, opposite, current,
                     GetNeighbors(current, obst), 1)
    IN  [frontier |-> st.frontier, in_frontier |-> st.in_frontier,
         parent |-> st.parent, meeting |-> st.meeting,
         explored |-> own \cup {current} \cup Range(st.frontier),
         popped |-> {current} \cup Range(st.frontier)]

\* A faulty variant of BidirExpand: the popped node is not added to the
\* explored set of its direction.
BidirExpandUnmarked(f, inf, par, own, opposite, obst) ==
    LET current == DequePopLeft(f).item
        f2      == DequePopLeft(f).rest
        inf2    == inf \ {current}
        st      == BidirLoop(
                     [frontier |-> f2, in_frontier |-> inf2, parent |-> par,
                      meeting |-> None],
                     own, opposite, current, GetNeighbors(current, obst), 1)
    IN  [frontier |-> st.frontier, in_frontier |-> st.in_frontier,
         parent |-> st.parent, meeting |-> st.meeting,
         explored |-> own, popped |-> {current}]

\* The expansion of one direction in one iteration: pop, mark, neighbour loop.
\* d = [frontier, in_frontier, parent, meeting, explored, popped].
BidirExpand(f, inf, par, own, opposite, obst) ==
    LET current == DequePopLeft(f).item
        f2      == DequePopLeft(f).rest
        inf2    == inf \ {current}
    IN  IF current \in own
        THEN [frontier |-> f2, in_frontier |-> inf2, parent |-> par,
              meeting |-> None, explored |-> own, popped |-> {}]
        ELSE LET st == BidirLoop(
                         [frontier |-> f2, in_frontier |-> inf2, parent |-> par,
                          meeting |-> None],
                         own \cup {current}, opposite, current,
                         GetNeighbors(current, obst), 1)
             IN  [frontier |-> st.frontier, in_frontier |-> st.in_frontier,
                  parent |-> st.parent, meeting |-> st.meeting,
                  explored |-> own \cup {current}, popped |-> {current}]

\* A direction that does not expand in this iteration.
BidirIdle(f, inf, par, own) ==
    [frontier |-> f, in_frontier |-> inf, parent |-> par, meeting |-> None,
     explored |-> own, popped |-> {}]

\* The expansions of one direction in one iteration: none or one.
Marked(direction, popped) ==
    IF popped = {} THEN <<>> ELSE <<<<direction, CHOOSE p \in popped : TRUE>>>>

\* The test before the backward expansion: `backward_frontier and not
\* meeting_point`.
BackwardExpands(bf, meeting) == bf # <<>> /\ meeting = None

\* One iteration of the while loop of BidirectionalSearch.search.
BidirStep ==
    /\ alg = "BIDIR" /\ pc = "loop"
    /\ forward_frontier # <<>> \/ backward_frontier # <<>>
    /\ \E o1 \in SpawnOutcomes(dynamic_obstacles) :
       \E o2 \in SpawnOutcomes(Spawned(dynamic_obstacles, o1)) :
        LET obst1 == Spawned(dynamic_obstacles, o1)
            obst2 == Spawned(obst1, o2)
            call1 == CallRecord(forward_frontier, "deque", "plain", o1, obst1,
                                dynamic_obstacles_encountered, explored, parent_map)
            call2 == CallRecord(backward_frontier, "deque", "plain", o2, obst2,
                                call1.after.dynamic_obstacles_encountered,
                                call1.after.explored, call1.after.parent_map)
            ff1   == call1.after.frontier
            bf1   == call2.after.frontier
            fw    == IF ff1 # <<>>
                     THEN BidirExpand(ff1, forward_in_frontier, forward_parent,
                                      forward_explored, backward_explored, obst2)
                     ELSE BidirIdle(ff1, forward_in_frontier, forward_parent,
                                    forward_explored)
            bw    == IF BackwardExpands(bf1, fw.meeting)
                     THEN BidirExpand(bf1, backward_in_frontier, backward_parent,
                                      backward_explored, fw.explored, obst2)
                     ELSE BidirIdle(bf1, backward_in_frontier, backward_parent,
                                    backward_explored)
            mp    == IF fw.meeting # None THEN fw.meeting ELSE bw.meeting
        IN  /\ dynamic_obstacles' = obst2
            /\ dynamic_obstacles_encountered' = call2.after.dynamic_obstacles_encountered
            /\ checks' = <<call1, call2>>
            /\ parent_map' = call2.after.parent_map
            /\ forward_frontier' = fw.frontier
            /\ forward_in_frontier' = fw.in_frontier
            /\ forward_parent' = fw.parent
            /\ forward_explored' = fw.explored
            /\ backward_frontier' = bw.frontier
            /\ backward_in_frontier' = bw.in_frontier
            /\ backward_parent' = bw.parent
            /\ backward_explored' = bw.explored
            /\ explored' = call2.after.explored \cup fw.popped \cup bw.popped
            /\ expansions' = expansions \o Marked("forward", fw.popped)
                                        \o Marked("backward", bw.popped)
            /\ meeting_point' = mp
            /\ IF mp # None
               THEN /\ pc' = "walk"
                    /\ walk_pos' = mp
                    /\ path' = <<>>
                    /\ UNCHANGED frontier_history
               ELSE /\ frontier_history' =
                          Append(frontier_history, Range(fw.frontier) \cup Range(bw.frontier))
                    /\ UNCHANGED <<pc, walk_pos, path>>
    /\ UNCHANGED <<gridVars, returned, neighbors_call, extract_call, ucsVars, iddfsVars, frontier, in_frontier,
                   path_forward, result, exception>>

\* ------------------------------------------------------ path reconstruction
\* The parent map a reconstruction loop reads.
WalkParent ==
    IF alg = "BIDIR"
    THEN (IF pc = "walk" THEN forward_parent ELSE backward_parent)
    ELSE parent_map

\* One iteration of `while pos is not None` of _reconstruct_path and of the two
\* loops of BidirectionalSearch.search.  Once pos is a position that path
\* already holds, the parent links form a cycle and path only repeats: the
\* loop goes on, and the repetitions the code appends are not recorded.
WalkStep ==
    /\ pc \in {"walk", "walk_back"} /\ walk_pos # None
    /\ path' = IF walk_pos \in Range(path) THEN path ELSE Append(path, walk_pos)
    /\ walk_pos' = Get(WalkParent, walk_pos)
    /\ UNCHANGED <<gridVars, returned, neighbors_call, extract_call, expansions, bidirVars, ucsVars, iddfsVars, dynamic_obstacles, pc,
                   frontier, in_frontier, explored, parent_map, frontier_history,
                   dynamic_obstacles_encountered, result, exception, checks>>

\* A faulty variant of ReconstructedPath: path.reverse() left out.
PathNotReversed(p) == p

\* The path a finished reconstruction loop of _reconstruct_path returns.
ReconstructedPath(p) == Reverse(p)

\* The path of BidirectionalSearch.search: forward chain, then backward chain.
CombinedPath(pf, pb) == pf \o pb

\* A faulty variant of Returned: total_nodes_explored counts the positions of
\* the path.
ReturnedCountingPath(p, found, expl) ==
    [path |-> p, explored |-> expl, total_nodes_explored |-> Len(p), found |-> found]

\* A faulty variant of Returned: the explored set is not copied into the result.
ReturnedUnfilled(p, found, expl) ==
    [path |-> p, explored |-> {}, total_nodes_explored |-> 0, found |-> found]

\* The fields search() fills before it returns.
Returned(p, found, expl) ==
    [path |-> p, explored |-> expl, total_nodes_explored |-> Cardinality(expl),
     found |-> found]

\* The end of the reconstruction loop of BFS, DFS, UCS, DLS and IDDFS: the path
\* is reversed, found is set, the loop is left and search() returns.
WalkEnd ==
    /\ alg # "BIDIR" /\ pc = "walk" /\ walk_pos = None
    /\ result' = Returned(ReconstructedPath(path), TRUE,
                          IF alg = "IDDFS" THEN all_explored ELSE explored)
    /\ pc' = "done"
    /\ UNCHANGED <<gridVars, returned, neighbors_call, extract_call, expansions, bidirVars, ucsVars, iddfsVars, dynamic_obstacles,
                   frontier, in_frontier, explored, parent_map, frontier_history,
                   dynamic_obstacles_encountered, walk_pos, path, exception, checks>>

\* Bidirectional: the end of the forward loop; the backward loop starts from
\* the backward parent of the meeting point.
BidirWalkForwardEnd ==
    /\ alg = "BIDIR" /\ pc = "walk" /\ walk_pos = None
    /\ path_forward' = ReconstructedPath(path)
    /\ pc' = "walk_back"
    /\ walk_pos' = Get(backward_parent, meeting_point)
    /\ path' = <<>>
    /\ UNCHANGED <<gridVars, returned, neighbors_call, extract_call, expansions, ucsVars, iddfsVars, dynamic_obstacles, frontier,
                   in_frontier, explored, parent_map, frontier_history,
                   dynamic_obstacles_encountered, result, exception, checks,
                   forward_frontier, backward_frontier, forward_explored,
                   backward_explored, forward_in_frontier, backward_in_frontier,
                   forward_parent, backward_parent, meeting_point>>

\* Bidirectional: the end of the backward loop; search() returns.
BidirWalkBackEnd ==
    /\ alg = "BIDIR" /\ pc = "walk_back" /\ walk_pos = None
    /\ result' = Returned(CombinedPath(path_forward, path), TRUE, explored)
    /\ pc' = "done"
    /\ UNCHANGED <<gridVars, returned, neighbors_call, extract_call, expansions, bidirVars, ucsVars, iddfsVars, dynamic_obstacles,
                   frontier, in_frontier, explored, parent_map, frontier_history,
                   dynamic_obstacles_encountered, walk_pos, path, exception, checks>>

\* The main loop ended without a path: search() returns found = False.
\* BFS, DFS, UCS, DLS: the frontier is empty at the loop test.  IDDFS: the
\* range of limits is exhausted.  Bidirectional: both frontiers are empty.
ReturnNotFound ==
    /\ pc = "loop"
    /\ CASE alg \in {"BFS", "DFS", "UCS", "DLS"} -> frontier = <<>>
         [] alg = "IDDFS" -> limit > MaxDepth
         [] alg = "BIDIR" -> forward_frontier = <<>> /\ backward_frontier = <<>>
    /\ result' = Returned(<<>>, FALSE,
                          IF alg = "IDDFS" THEN all_explored ELSE explored)
    /\ pc' = "done"
    /\ UNCHANGED <<gridVars, returned, neighbors_call, extract_call, expansions, bidirVars, ucsVars, iddfsVars, dynamic_obstacles,
                   frontier, in_frontier, explored, parent_map, frontier_history,
                   dynamic_obstacles_encountered, walk_pos, path, exception, checks>>

\* ------------------------------------------------------------ search() again
\* The six fields of the returned SearchResult as its holder reads them now.
\* path is the list reconstruction built, explored a copy, total and found
\* plain values; frontier_history and dynamic_obstacles_encountered are the
\* lists of the algorithm instance themselves, assigned without a copy.
ReadResult(r) ==
    [path                          |-> r.path,
     explored                      |-> r.explored,
     total_nodes_explored          |-> r.total_nodes_explored,
     found                         |-> r.found,
     frontier_history              |-> frontier_history,
     dynamic_obstacles_encountered |-> dynamic_obstacles_encountered]

\* A further search() call on the same algorithm instance and the same grid,
\* after a call that returned: the caller keeps the earlier result, and the
\* new call starts as the code before the main loop does.  self.explored is
\* bound to a new set (BFS, DFS, UCS, DLS) or left alone (IDDFS, Bidirectional);
\* self.parent_map keeps its entries and gets parent_map[start] = None (IDDFS
\* and Bidirectional leave it alone); self.frontier_history, the obstacle log
\* and the obstacles of the grid stay as the earlier call left them.
SearchAgain ==
    /\ pc = "done" /\ Len(returned) + 1 < MaxSearches
    /\ returned' = Append(returned, [result |-> result, as_returned |-> ReadResult(result)])
    /\ result' = EmptyResult
    /\ pc' = "loop"
    /\ walk_pos' = None /\ path' = <<>> /\ path_forward' = <<>>
    /\ frontier' = CASE alg \in {"BFS", "DFS"} -> <<start>>
                      [] alg = "UCS" -> << <<0, 0, start>> >>
                      [] alg = "DLS" -> << <<start, 0>> >>
                      [] OTHER -> <<>>
    /\ in_frontier' = IF alg \in {"BFS", "DFS", "DLS"} THEN {start} ELSE {}
    /\ explored' = IF alg \in {"BFS", "DFS", "UCS", "DLS"} THEN {} ELSE explored
    /\ parent_map' = IF alg \in {"BFS", "DFS", "UCS", "DLS"}
                     THEN Put(parent_map, start, None) ELSE parent_map
    /\ cost_map' = IF alg = "UCS" THEN [x \in {start} |-> 0] ELSE cost_map
    /\ counter' = IF alg = "UCS" THEN 1 ELSE counter
    /\ limit' = IF alg = "IDDFS" THEN 1 ELSE limit
    /\ all_explored' = {}
    /\ forward_frontier' = IF alg = "BIDIR" THEN <<start>> ELSE <<>>
    /\ backward_frontier' = IF alg = "BIDIR" THEN <<target>> ELSE <<>>
    /\ forward_explored' = {} /\ backward_explored' = {}
    /\ forward_in_frontier' = IF alg = "BIDIR" THEN {start} ELSE {}
    /\ backward_in_frontier' = IF alg = "BIDIR" THEN {target} ELSE {}
    /\ forward_parent' = IF alg = "BIDIR" THEN Put(EmptyDict, start, None) ELSE EmptyDict
    /\ backward_parent' = IF alg = "BIDIR" THEN Put(EmptyDict, target, None) ELSE EmptyDict
    /\ meeting_point' = None
    /\ expansions' = <<>>
    /\ UNCHANGED <<gridVars, dynamic_obstacles, frontier_history,
                   dynamic_obstacles_encountered, exception, checks, neighbors_call,
                   extract_call>>

\* ------------------------------------------------------------ construction
\* The fields of a freshly constructed algorithm instance over the grid
\* (w, h, s, t, ws) with search() at the place p: "loop" is the start of its
\* main loop.
SetupFields(a, w, h, s, t, ws, dl, sp, p) ==
    /\ alg = a /\ width = w /\ height = h /\ start = s /\ target = t
    /\ walls = ws /\ depth_limit = dl /\ spawn_enabled = sp
    /\ dynamic_obstacles = {}
    /\ pc = p
    /\ exception = "none"
    /\ checks = <<>>
    /\ returned = <<>>
    /\ neighbors_call = NoCall
    /\ expansions = <<>>
    /\ explored = {}
    /\ frontier_history = <<>>
    /\ dynamic_obstacles_encountered = <<>>
    /\ result = EmptyResult
    /\ walk_pos = None /\ path = <<>> /\ path_forward = <<>>
    /\ frontier = CASE a \in {"BFS", "DFS"} -> <<s>>
                    [] a = "UCS" -> << <<0, 0, s>> >>
                    [] a = "DLS" -> << <<s, 0>> >>
                    [] OTHER -> <<>>
    /\ in_frontier = IF a \in {"BFS", "DFS", "DLS"} THEN {s} ELSE {}
    /\ parent_map = IF a \in {"BFS", "DFS", "UCS", "DLS"}
                    THEN Put(EmptyDict, s, None) ELSE EmptyDict
    /\ cost_map = IF a = "UCS" THEN [x \in {s} |-> 0] ELSE [x \in {} |-> 0]
    /\ counter = IF a = "UCS" THEN 1 ELSE 0
    /\ limit = IF a = "IDDFS" THEN 1 ELSE 0
    /\ all_explored = {}
    /\ forward_frontier = IF a = "BIDIR" THEN <<s>> ELSE <<>>
    /\ backward_frontier = IF a = "BIDIR" THEN <<t>> ELSE <<>>
    /\ forward_explored = {} /\ backward_explored = {}
    /\ forward_in_frontier = IF a = "BIDIR" THEN {s} ELSE {}
    /\ backward_in_frontier = IF a = "BIDIR" THEN {t} ELSE {}
    /\ forward_parent = IF a = "BIDIR" THEN Put(EmptyDict, s, None) ELSE EmptyDict
    /\ backward_parent = IF a = "BIDIR" THEN Put(EmptyDict, t, None) ELSE EmptyDict
    /\ meeting_point = None

\* A freshly constructed algorithm instance with search() at the place p, and
\* no direct _extract_node_from_item call on record.
SetupAt(a, w, h, s, t, ws, dl, sp, p) ==
    /\ SetupFields(a, w, h, s, t, ws, dl, sp, p)
    /\ extract_call = NoExtract
    /\ spawn_choices = <<>>

\* The state search() starts its main loop in, on a freshly constructed
\* algorithm instance over the grid (w, h, s, t, ws).
Setup(a, w, h, s, t, ws, dl, sp) == SetupAt(a, w, h, s, t, ws, dl, sp, "loop")

\* A faulty variant of ConstructionValid: the target is not validated.
ConstructionChecksStartOnly == IsValidPosition(start)

\* The two validations of Grid.__init__ both pass.
ConstructionValid == IsValidPosition(start) /\ IsValidPosition(target)

\* Grid.__init__(width, height, start, target, probability): the fields are
\* assigned, then start and target are validated; a position out of bounds
\* raises ValueError out of the constructor and no Grid comes to be.
GridInit ==
    /\ pc = "construct"
    /\ IF ConstructionValid
       THEN /\ pc' = "loop"
            /\ UNCHANGED exception
       ELSE /\ pc' = "raised"
            /\ exception' = "ValueError"
    /\ UNCHANGED <<gridVars, returned, neighbors_call, extract_call, expansions, bidirVars, ucsVars, iddfsVars,
                   dynamic_obstacles, frontier, in_frontier, explored, parent_map,
                   frontier_history, dynamic_obstacles_encountered, walk_pos, path,
                   result, checks>>

\* ------------------------------------------------------- the Grid's methods
\* What the calls on the Grid leave alone: the algorithm instance.
searchVars == <<bidirVars, ucsVars, iddfsVars, frontier, in_frontier, explored,
                parent_map, frontier_history, dynamic_obstacles_encountered,
                walk_pos, path, result, exception, checks, returned, expansions,
                extract_call>>

\* Grid.add_wall(x, y): the walls it leaves.
WithWall(ws, x, y) ==
    IF IsValidPosition(<<x, y>>) /\ <<x, y>> # start /\ <<x, y>> # target
    THEN ws \cup {<<x, y>>} ELSE ws

\* Grid.add_wall(x, y), called with any coordinates inside or just outside
\* the grid.
AddWall ==
    /\ pc = "grid"
    /\ \E x \in (-1)..width, y \in (-1)..height : walls' = WithWall(walls, x, y)
    /\ neighbors_call' = NoCall
    /\ UNCHANGED <<alg, width, height, start, target, spawn_enabled, spawn_choices,
                   depth_limit, dynamic_obstacles, pc, searchVars>>

\* The positions an attempt of add_walls_randomly passes on to add_wall.
WallCandidates(ws) == {pos \in Cells : pos \notin ws /\ pos # start /\ pos # target}

\* Grid.add_walls_randomly(count), the whole loop: each of its at most
\* 10 * count attempts draws a position of the grid and adds it unless it is a
\* wall, start or target, until count walls are added.  The draws are the
\* nondeterminism: any set of at most count candidates may be what it adds.
AddWallsRandomly ==
    /\ pc = "grid"
    /\ \E count \in 0..MaxCount :
       \E added \in SUBSET WallCandidates(walls) :
           /\ Cardinality(added) <= count
           /\ walls' = walls \cup added
    /\ neighbors_call' = NoCall
    /\ UNCHANGED <<alg, width, height, start, target, spawn_enabled, spawn_choices,
                   depth_limit, dynamic_obstacles, pc, searchVars>>

\* Grid.spawn_dynamic_obstacle(), called on the grid directly.
SpawnDynamicObstacle ==
    /\ pc = "grid"
    /\ \E o \in SpawnOutcomes(dynamic_obstacles) :
           dynamic_obstacles' = Spawned(dynamic_obstacles, o)
    /\ neighbors_call' = NoCall
    /\ UNCHANGED <<gridVars, pc, searchVars>>

\* Grid.clear_dynamic_obstacles()
ClearDynamicObstacles ==
    /\ pc = "grid"
    /\ dynamic_obstacles' = {}
    /\ neighbors_call' = NoCall
    /\ UNCHANGED <<gridVars, pc, searchVars>>

\* Grid.get_neighbors(pos), called with any position inside or just outside
\* the grid: the list it returns is put on record.
GetNeighborsCall ==
    /\ pc = "grid"
    /\ \E x \in (-1)..width, y \in (-1)..height :
           neighbors_call' = [pos |-> <<x, y>>,
                              neighbors |-> GetNeighbors(<<x, y>>, dynamic_obstacles)]
    /\ UNCHANGED <<gridVars, dynamic_obstacles, pc, searchVars>>

\* The wall sets add_wall can build: never on start or target.
WallSets(w, h, s, t) ==
    {ws \in SUBSET (CellsOf(w, h) \ {s, t}) : Cardinality(ws) <= MaxWalls}

DepthLimits(a) == IF a = "DLS" THEN 0..MaxDepthLimit ELSE {0}

\* The grid sizes (width, height) of the searches with spawning obstacles:
\* every size up to 3x2 and 2x3.
GridSizes ==
    {<<1, 1>>, <<2, 1>>, <<1, 2>>, <<3, 1>>, <<1, 3>>, <<2, 2>>, <<3, 2>>, <<2, 3>>}

\* The grid sizes of the static searches: the 3x3 grid as well.
StaticGridSizes == GridSizes \cup {<<3, 3>>}

\* Every algorithm on every grid of these sizes, with a positive
\* spawn probability: at each reconciliation an obstacle may spawn or not.
\* The grids carry at most MaxWalls walls.
Init ==
    \E a \in Algorithms, wh \in GridSizes :
    \E s \in CellsOf(wh[1], wh[2]), t \in CellsOf(wh[1], wh[2]) :
    \E ws \in WallSets(wh[1], wh[2], s, t), dl \in DepthLimits(a) :
        Setup(a, wh[1], wh[2], s, t, ws, dl, TRUE)

\* Every algorithm on every static grid, with at most MaxWalls walls: no
\* obstacle ever spawns.
InitStatic ==
    \E a \in Algorithms, wh \in StaticGridSizes :
    \E s \in CellsOf(wh[1], wh[2]), t \in CellsOf(wh[1], wh[2]) :
    \E ws \in WallSets(wh[1], wh[2], s, t), dl \in DepthLimits(a) :
        Setup(a, wh[1], wh[2], s, t, ws, dl, FALSE)

\* The 5x5 grid without walls and without spawns, start (0,0), target (4,4).
InitOpen5 ==
    \E a \in Algorithms :
    \E dl \in DepthLimits(a) :
        Setup(a, 5, 5, <<0, 0>>, <<4, 4>>, {}, dl, FALSE)

\* Every algorithm on the 2x1 and the 2x2 grid without walls, static.
InitSmall ==
    \E a \in Algorithms, wh \in {<<2, 1>>, <<2, 2>>} :
    \E s \in CellsOf(wh[1], wh[2]), t \in CellsOf(wh[1], wh[2]) :
    \E dl \in DepthLimits(a) :
        Setup(a, wh[1], wh[2], s, t, {}, dl, FALSE)

Next ==
    \/ BFSStep
    \/ DFSStep
    \/ UCSStep
    \/ DLSStep
    \/ IDDFSIteration
    \/ BidirStep
    \/ WalkStep
    \/ WalkEnd
    \/ BidirWalkForwardEnd
    \/ BidirWalkBackEnd
    \/ ReturnNotFound

\* The steps of an algorithm instance that may be searched more than once.
NextAgain ==
    \/ Next
    \/ SearchAgain

Spec == Init /\ [][Next]_vars

\* Every algorithm on the grids of up to three cells in a row and of 2x2,
\* without walls, with spawning obstacles; the instance is searched again
\* after a search returned.
InitAgain ==
    \E a \in Algorithms, wh \in {<<2, 1>>, <<3, 1>>, <<2, 2>>} :
    \E s \in CellsOf(wh[1], wh[2]), t \in CellsOf(wh[1], wh[2]) :
    \E dl \in DepthLimits(a) :
        Setup(a, wh[1], wh[2], s, t, {}, dl, TRUE)

SpecAgain == InitAgain /\ [][NextAgain]_vars

\* The positions a caller may hand to Grid.__init__ for a w x h grid: those of
\* the grid and those one step outside it.
Requested(w, h) == {<<x, y>> : x \in (-1)..w, y \in (-1)..h}

\* Before Grid.__init__ runs: every algorithm on a 1x1, 2x1 or 2x2 grid
\* requested with any start and target inside or just outside the grid,
\* without walls and without spawns.
InitConstruct ==
    \E a \in Algorithms, wh \in {<<1, 1>>, <<2, 1>>, <<2, 2>>} :
    \E s \in Requested(wh[1], wh[2]), t \in Requested(wh[1], wh[2]) :
    \E dl \in DepthLimits(a) :
        SetupAt(a, wh[1], wh[2], s, t, {}, dl, FALSE, "construct")

\* The steps from the construction of the grid on.
NextConstruct ==
    \/ GridInit
    \/ Next

SpecConstruct == InitConstruct /\ [][NextConstruct]_vars

\* A freshly constructed Grid of 2x1, 2x2 or 3x2 cells, with or without a
\* positive spawn probability, before any search.  The start is (0,0) or
\* (1,0), of which every cell of these grids is a mirror image; the target
\* is any cell.
InitGrid ==
    \E wh \in {<<2, 1>>, <<2, 2>>, <<3, 2>>}, sp \in BOOLEAN :
    \E s \in {<<0, 0>>, <<1, 0>>}, t \in CellsOf(wh[1], wh[2]) :
        SetupAt("BFS", wh[1], wh[2], s, t, {}, 0, sp, "grid")

\* The calls on a Grid.
NextGrid ==
    \/ AddWall
    \/ AddWallsRandomly
    \/ SpawnDynamicObstacle
    \/ ClearDynamicObstacles
    \/ GetNeighborsCall

SpecGrid == InitGrid /\ [][NextGrid]_vars

\* UCS with spawning obstacles on two grids: the 3x5 grid with walls at (1,2)
\* and (2,1), start (2,4) and target (2,0), on which a purge can leave the
\* heap out of order so that a position is pushed a second time at a smaller
\* cost; and the 3x1 grid whose middle cell is a wall, on which the target is
\* out of reach.
InitLazy ==
    \/ Setup("UCS", 3, 5, <<2, 4>>, <<2, 0>>, {<<1, 2>>, <<2, 1>>}, 0, TRUE)
    \/ Setup("UCS", 3, 1, <<0, 0>>, <<2, 0>>, {<<1, 0>>}, 0, TRUE)

\* The steps of UniformCostSearch.search.
NextUCS ==
    \/ UCSStep
    \/ WalkStep
    \/ WalkEnd
    \/ ReturnNotFound

SpecLazy == InitLazy /\ [][NextUCS]_vars

\* UCS on the 6x7 grid with eleven walls, start (5,3) and target (0,6), with
\* the generator choosing (3,4), (2,2), (2,3) and (2,6) for its obstacles:
\* the purges can leave (2,4), pushed at cost 3, below entries of cost 5 in
\* the list, so that (1,5) is expanded at cost 5 and (2,4) after it; and the
\* 3x1 grid whose middle cell is a wall, on which the target is out of reach.
InitBuried ==
    \/ /\ SetupFields("UCS", 6, 7, <<5, 3>>, <<0, 6>>,
                      {<<1, 2>>, <<3, 2>>, <<3, 6>>, <<4, 1>>, <<4, 3>>, <<4, 4>>,
                       <<4, 6>>, <<5, 1>>, <<5, 2>>, <<5, 5>>, <<5, 6>>},
                      0, TRUE, "loop")
       /\ extract_call = NoExtract
       /\ spawn_choices = << <<3, 4>>, <<2, 2>>, <<2, 3>>, <<2, 6>> >>
    \/ Setup("UCS", 3, 1, <<0, 0>>, <<2, 0>>, {<<1, 0>>}, 0, TRUE)

SpecBuried == InitBuried /\ [][NextUCS]_vars

\* IDDFS without spawns on the 4x3 grid with walls at (0,1) and (1,1), from
\* any free cell to any free cell: between (0,0) and (0,2) the walls leave
\* only a detour of four moves through (2,1).
InitDetour ==
    \E s \in CellsOf(4, 3) \ {<<0, 1>>, <<1, 1>>} :
    \E t \in CellsOf(4, 3) \ {<<0, 1>>, <<1, 1>>} :
        Setup("IDDFS", 4, 3, s, t, {<<0, 1>>, <<1, 1>>}, 0, FALSE)

\* The steps of IterativeDeepeningDFS.search.
NextIDDFS ==
    \/ IDDFSIteration
    \/ WalkStep
    \/ WalkEnd
    \/ ReturnNotFound

SpecDetour == InitDetour /\ [][NextIDDFS]_vars

\* IDDFS with spawning obstacles on the open 4x3 grid from (0,0) to any
\* target: an iteration can explore more than ten of its twelve positions;
\* and on the 3x1 grid whose middle cell is a wall, on which the target is
\* out of reach.
InitTwelve ==
    \/ \E t \in CellsOf(4, 3) :
           Setup("IDDFS", 4, 3, <<0, 0>>, t, {}, 0, TRUE)
    \/ Setup("IDDFS", 3, 1, <<0, 0>>, <<2, 0>>, {<<1, 0>>}, 0, TRUE)

SpecTwelve == InitTwelve /\ [][NextIDDFS]_vars

\* Bidirectional search with spawning obstacles on the 4x3 grid with walls at
\* (1,1), (2,0) and (3,1), between the corners (0,0) and (3,0), either of
\* them the start: the walls leave (2,1) as the only neighbour of (3,0).
InitCorner ==
    \E s \in {<<0, 0>>, <<3, 0>>}, t \in {<<0, 0>>, <<3, 0>>} :
        /\ s # t
        /\ Setup("BIDIR", 4, 3, s, t, {<<1, 1>>, <<2, 0>>, <<3, 1>>}, 0, TRUE)

\* The steps of BidirectionalSearch.search.
NextBidir ==
    \/ BidirStep
    \/ WalkStep
    \/ BidirWalkForwardEnd
    \/ BidirWalkBackEnd
    \/ ReturnNotFound

SpecCorner == InitCorner /\ [][NextBidir]_vars

\* The ints, and the values of at most one level of nesting, that the items
\* handed to _extract_node_from_item are made of.
PyInts == {PyInt(n) : n \in 0..MaxInt}

PyShallow == PyInts \cup {PyNone} \cup {PyTuple(<<a, b>>) : a \in PyInts, b \in PyInts}

\* The items handed to _extract_node_from_item: the shallow values and every
\* tuple of up to three of them, the three frontier entry shapes among them.
PyItems ==
    PyShallow \cup {PyTuple(<<>>)}
              \cup {PyTuple(<<a>>) : a \in PyShallow}
              \cup {PyTuple(<<a, b>>) : a \in PyShallow, b \in PyShallow}
              \cup {PyTuple(<<a, b, c>>) : a \in PyShallow, b \in PyShallow, c \in PyShallow}

\* An algorithm instance on which _extract_node_from_item is about to be
\* called with any of the items.
InitExtract ==
    /\ SetupFields("BFS", 2, 2, <<0, 0>>, <<1, 1>>, {}, 0, FALSE, "extract")
    /\ \E it \in PyItems : extract_call = [NoExtract EXCEPT !.item = it]
    /\ spawn_choices = <<>>

\* SearchAlgorithm._extract_node_from_item(item), called directly: what it
\* returns is put on record.
ExtractNodeCall ==
    /\ pc = "extract" /\ ~extract_call.called
    /\ extract_call' = [extract_call EXCEPT !.called = TRUE,
                                            !.node = ExtractNodeByShape(extract_call.item)]
    /\ UNCHANGED <<gridVars, dynamic_obstacles, pc, bidirVars, ucsVars, iddfsVars,
                   frontier, in_frontier, explored, parent_map, frontier_history,
                   dynamic_obstacles_encountered, walk_pos, path, result, exception,
                   checks, returned, expansions, neighbors_call>>

SpecExtract == InitExtract /\ [][ExtractNodeCall]_vars

SpecStatic == InitStatic /\ [][Next]_vars

SpecOpen5 == InitOpen5 /\ [][Next]_vars

\* search() runs on: single-threaded and synchronous, it takes its next step
\* whenever it has one.
FairSpecSmall == InitSmall /\ [][Next]_vars /\ WF_vars(Next)

\* ------------------------------------------------------------ properties
\* Two positions one 8-directional move apart.
Adjacent(p, q) ==
    /\ p # q
    /\ p[1] - q[1] \in {-1, 0, 1}
    /\ p[2] - q[2] \in {-1, 0, 1}

\* search() has returned a result with found = True.
ReturnedFound == pc = "done" /\ result.found

\* A path from start to target whose steps are 8-directional moves.
IsStartTargetPath(p) ==
    /\ Len(p) >= 1
    /\ p[1] = start
    /\ p[Len(p)] = target
    /\ \A i \in 1..(Len(p) - 1) : Adjacent(p[i], p[i + 1])

\* C1: whenever search() returns found = True, under any obstacle spawns, the
\* path starts at the grid start, ends at the grid target, and every two
\* consecutive positions are distinct and one of the 8 neighbour offsets apart.
C1_PathStartTargetAdjacent == ReturnedFound => IsStartTargetPath(result.path)

\* C1 witness: Bidirectional search returned a path of three or more
\* positions in a run in which an obstacle spawned.
C1_Witness ==
    /\ ReturnedFound /\ alg = "BIDIR"
    /\ Len(result.path) >= 3
    /\ dynamic_obstacles_encountered # <<>>
    /\ IsStartTargetPath(result.path)

\* C2: whenever search() returns found = True, no position of the returned
\* path is blocked (wall or dynamic obstacle) when the path is constructed.
C2_PathNeverBlocked ==
    ReturnedFound =>
        \A i \in 1..Len(result.path) : ~IsBlocked(result.path[i], dynamic_obstacles)

\* C3: search() never raises an exception; a frontier that reconciliation
\* empties ends the search with found = False like any other exhaustion.
C3_NeverRaises == pc # "raised" /\ exception = "none"

\* The number of moves of a shortest 8-directional path from start to target
\* around the walls, or -1 when the target cannot be reached: the layers of
\* positions 0, 1, 2, ... moves away from start.
RECURSIVE Flood(_, _, _)
Flood(seen, layer, d) ==
    IF target \in layer THEN d
    ELSE LET nxt == {q \in Cells \ (walls \cup seen) :
                        \E p \in layer : Adjacent(p, q)}
         IN  IF nxt = {} THEN -1 ELSE Flood(seen \cup nxt, nxt, d + 1)

ShortestSteps == Flood({start}, {start}, 0)

Steps(p) == Len(p) - 1

\* search() ends: it returns a result or raises.
Ended == pc \in {"done", "raised"}

\* C4: every search() call terminates: the main loop ends and the path
\* reconstruction reaches a root without parent after finitely many steps.
C4_Terminates == <>Ended

\* C5: BFS on a static grid returns found = True with a path of the minimum
\* number of moves whenever the target is reachable, and found = False when
\* it is not.
C5_BFSShortest ==
    (pc = "done" /\ alg = "BFS") =>
        IF ShortestSteps >= 0
        THEN result.found /\ Steps(result.path) = ShortestSteps
                          /\ IsStartTargetPath(result.path)
        ELSE ~result.found

\* C5 witness: BFS returned a path of two or more moves around a wall.
C5_Witness ==
    /\ pc = "done" /\ alg = "BFS" /\ result.found
    /\ walls # {}
    /\ Steps(result.path) >= 2
    /\ Steps(result.path) > Max(IF start[1] > target[1] THEN start[1] - target[1]
                                ELSE target[1] - start[1],
                                IF start[2] > target[2] THEN start[2] - target[2]
                                ELSE target[2] - start[2])

\* C6: UCS on a static grid: the cost of the returned path (its number of
\* moves) is at most the cost of every path from start to target.
C6_UCSCheapest ==
    (pc = "done" /\ alg = "UCS" /\ result.found) =>
        /\ IsStartTargetPath(result.path)
        /\ ShortestSteps >= 0
        /\ Steps(result.path) <= ShortestSteps

\* C6 witness: UCS returned a path of two or more moves on a grid with a wall.
C6_Witness ==
    /\ pc = "done" /\ alg = "UCS" /\ result.found
    /\ walls # {}
    /\ Steps(result.path) >= 2
    /\ Steps(result.path) = ShortestSteps

\* C7: IDDFS on a static grid: the returned path is as long as the BFS
\* shortest path of the same grid.
C7_IDDFSShortest ==
    (pc = "done" /\ alg = "IDDFS" /\ result.found) =>
        Steps(result.path) = ShortestSteps

\* C8: DLS with depth_limit 0 finds only a target that is the start, and DLS
\* with a depth_limit below the shortest path length returns found = False.
C8_DLSLimit ==
    (pc = "done" /\ alg = "DLS") =>
        /\ (depth_limit = 0 /\ result.found) => start = target
        /\ (ShortestSteps = -1 \/ depth_limit < ShortestSteps) => ~result.found

\* C8 witness: DLS returned found = False although the target is reachable,
\* one move beyond a positive depth limit.
C8_Witness ==
    /\ pc = "done" /\ alg = "DLS" /\ ~result.found
    /\ depth_limit >= 1
    /\ ShortestSteps = depth_limit + 1

\* Bidirectional: the moves from start to the meeting point along the forward
\* parent chain, and from the meeting point to target along the backward one.
ForwardDistance == Len(path_forward) - 1

BackwardDistance == Len(path)

\* C9: Bidirectional search on the open 5x5 grid from (0,0) to (4,4): the
\* forward and the backward distance of the meeting point differ by at most 1.
C9_MeetingBalanced ==
    (pc = "done" /\ alg = "BIDIR") =>
        /\ result.found
        /\ meeting_point # None
        /\ ForwardDistance - BackwardDistance \in {-1, 0, 1}

\* C9 witness: the search met strictly between start and target.
C9_Witness ==
    /\ pc = "done" /\ alg = "BIDIR" /\ result.found
    /\ width = 5 /\ height = 5 /\ start = <<0, 0>> /\ target = <<4, 4>>
    /\ meeting_point \notin {None, start, target}
    /\ ForwardDistance >= 1 /\ BackwardDistance >= 1

\* The shape of the frontier items of the running algorithm.
FrontierFormat ==
    CASE alg = "UCS" -> "ucs"
      [] alg = "DLS" -> "dls"
      [] OTHER       -> "plain"

\* The positions inside a frontier of the running algorithm.
FrontierPositions ==
    IF alg = "BIDIR"
    THEN Range(forward_frontier) \cup Range(backward_frontier)
    ELSE NodesOf(frontier, FrontierFormat)

\* The frontier-based algorithms: all but IDDFS, which keeps no frontier.
FrontierBased == alg \in {"BFS", "DFS", "UCS", "DLS", "BIDIR"}

\* C11: when an obstacle spawns during a step at a position that is inside a
\* frontier, the next snapshot appended to frontier_history does not hold
\* that position.
C11_SpawnedAbsentFromSnapshot ==
    [][(FrontierBased /\ Len(frontier_history') > Len(frontier_history)) =>
          \A o \in (dynamic_obstacles' \ dynamic_obstacles) \cap FrontierPositions :
              o \notin frontier_history'[Len(frontier_history')]]_vars

\* How many entries of the sequence s equal x.
Count(s, x) == Cardinality({i \in 1..Len(s) : s[i] = x})

\* The first index of x in the sequence s.
IndexOf(s, x) == CHOOSE i \in 1..Len(s) : s[i] = x /\ \A j \in 1..(i - 1) : s[j] # x

\* The entry `item` of a frontier handed to the call c holds a position that
\* is blocked once the call has spawned its obstacle.
NowBlocked(c, item) == IsBlocked(ExtractNodeFromItem(item, c.fmt), c.obstacles)

\* The calls of the latest iteration in which an obstacle spawned.
SpawningCalls == {k \in 1..Len(checks) : checks[k].spawned # None}

\* C12: a reconciliation call in which an obstacle spawns removes every entry
\* whose position is now blocked, keeps every other entry (plain, UCS and DLS
\* entries alike), and keeps the survivors in their previous relative order.
C12_PurgeRemovesExactlyBlocked ==
    \A k \in SpawningCalls :
        LET c      == checks[k]
            before == c.before.frontier
            after  == c.after.frontier
        IN  /\ \A i \in 1..Len(after) : ~NowBlocked(c, after[i])
            /\ \A i \in 1..Len(before) :
                   Count(after, before[i]) =
                       (IF NowBlocked(c, before[i]) THEN 0 ELSE Count(before, before[i]))
            /\ \A i, j \in 1..Len(after) :
                   i < j => IndexOf(before, after[i]) < IndexOf(before, after[j])

\* C12 witness: a call on a DLS stack removed the blocked entry from between
\* two entries that survive.
C12_Witness ==
    \E k \in SpawningCalls :
        LET c == checks[k]
        IN  /\ c.fmt = "dls"
            /\ Len(c.before.frontier) >= 3
            /\ Len(c.after.frontier) = Len(c.before.frontier) - 1
            /\ NowBlocked(c, c.before.frontier[2])

\* The heap invariant of heapq on a list of (cost, counter, node) entries: no
\* entry is smaller than its parent (heap[k] <= heap[2k+1], heap[2k+2]).
IsMinHeap(heap) ==
    \A i \in 2..Len(heap) : ~ItemLess(heap[i], heap[i \div 2])

\* heappop on the list returns an entry with the smallest (cost, counter).
PopsSmallest(heap) ==
    heap # <<>> => \A i \in 1..Len(heap) : ~ItemLess(heap[i], HeapPop(heap).item)

\* C13: after every reconciliation call that purges blocked entries, the UCS
\* frontier is still a binary min-heap on (cost, counter), and the next
\* heappop returns the smallest remaining entry.
C13_HeapValidAfterPurge ==
    alg = "UCS" =>
        \A k \in SpawningCalls :
            /\ IsMinHeap(checks[k].after.frontier)
            /\ PopsSmallest(checks[k].after.frontier)

\* C14: every reconciliation call leaves self.explored and self.parent_map
\* as they were, and a call in which no obstacle spawns also leaves the
\* frontier and the obstacle log as they were.
C14_ReconciliationFrame ==
    \A k \in 1..Len(checks) :
        LET c == checks[k]
        IN  /\ c.after.explored = c.before.explored
            /\ c.after.parent_map = c.before.parent_map
            /\ c.spawned = None =>
                   /\ c.after.frontier = c.before.frontier
                   /\ c.after.dynamic_obstacles_encountered =
                          c.before.dynamic_obstacles_encountered

\* C14 witness: a call in which an obstacle spawned shrank the frontier while
\* explored positions and parent links existed.
C14_Witness ==
    \E k \in SpawningCalls :
        LET c == checks[k]
        IN  /\ Len(c.after.frontier) < Len(c.before.frontier)
            /\ c.before.explored # {}
            /\ Cardinality(DOMAIN c.before.parent_map) >= 2
            /\ c.after.explored = c.before.explored

\* The position the pop of a main-loop iteration takes from the frontier `f`
\* that reconciliation left, by the discipline of the algorithm; none from an
\* empty frontier.
PoppedFrom(f) ==
    IF f = <<>> THEN {}
    ELSE CASE alg \in {"BFS", "BIDIR"} -> {Head(f)}
           [] alg = "DFS"               -> {f[Len(f)]}
           [] alg = "DLS"               -> {f[Len(f)][1]}
           [] alg = "UCS"               -> {HeapPop(f).item[3]}
           [] OTHER                     -> {}

\* The positions popped in the iteration whose reconciliation calls are cs.
Popped(cs) == UNION {PoppedFrom(cs[k].after.frontier) : k \in 1..Len(cs)}

\* C15: a position enters an explored set only in the step that pops it from
\* a frontier, never when it is enqueued, and no explored set ever loses a
\* position (BFS, DFS, UCS, DLS and both directions of Bidirectional).
C15_ExploredOnlyWhenPopped ==
    [][FrontierBased =>
          /\ explored \subseteq explored'
          /\ forward_explored \subseteq forward_explored'
          /\ backward_explored \subseteq backward_explored'
          /\ (explored' \ explored) \subseteq
                 (IF pc = "loop" THEN Popped(checks') ELSE {})
          /\ (forward_explored' \ forward_explored) \subseteq
                 (IF alg = "BIDIR" /\ pc = "loop"
                  THEN PoppedFrom(checks'[1].after.frontier) ELSE {})
          /\ (backward_explored' \ backward_explored) \subseteq
                 (IF alg = "BIDIR" /\ pc = "loop"
                  THEN PoppedFrom(checks'[2].after.frontier) ELSE {})]_vars

\* C15 witness: Bidirectional search has popped and explored positions in
\* both directions while enqueued positions wait unexplored in both frontiers.
C15_Witness ==
    /\ alg = "BIDIR" /\ pc = "loop" /\ Len(checks) = 2
    /\ forward_explored # {} /\ backward_explored # {}
    /\ Range(forward_frontier) \ explored # {}
    /\ Range(backward_frontier) \ explored # {}

\* The positions inside the frontiers right after the reconciliation calls cs
\* of an iteration, before its pop.
ReconciledPositions(cs) ==
    UNION {NodesOf(cs[k].after.frontier, cs[k].fmt) : k \in 1..Len(cs)}

\* A step of the main loop that expands: an iteration of the while loop.
ExpansionStep == FrontierBased /\ pc = "loop" /\ pc' # "done"

\* C16: every expansion step of a frontier-based algorithm records exactly
\* one snapshot, and the snapshot is the set of positions in the frontier
\* after that step's reconciliation and before that step's pop.
C16_OneSnapshotBeforePop ==
    [][ExpansionStep =>
          /\ Len(frontier_history') = Len(frontier_history) + 1
          /\ frontier_history'[Len(frontier_history')] = ReconciledPositions(checks')]_vars

\* Following the parent links of the map pm from p reaches a position without
\* parent within n links.  dict.get gives None for a position without entry.
RECURSIVE ChainEnds(_, _, _)
ChainEnds(pm, p, n) ==
    IF p = None THEN TRUE
    ELSE IF n = 0 THEN FALSE
    ELSE ChainEnds(pm, Get(pm, p), n - 1)

\* The parent map pm holds no cycle: a chain that visits no position twice
\* has at most as many links as the map has entries.
Acyclic(pm) ==
    \A p \in DOMAIN pm : ChainEnds(pm, p, Cardinality(DOMAIN pm) + 1)

\* C17: in every reachable state the shared parent map and the forward and
\* backward parent maps of Bidirectional search hold no cycle.
C17_ParentMapsAcyclic ==
    /\ Acyclic(parent_map)
    /\ Acyclic(forward_parent)
    /\ Acyclic(backward_parent)

\* What spawn_dynamic_obstacle returned in the calls cs that spawned, in call
\* order.
RECURSIVE SpawnsOf(_)
SpawnsOf(cs) ==
    IF cs = <<>> THEN <<>>
    ELSE (IF Head(cs).spawned = None THEN <<>> ELSE <<Head(cs).spawned>>)
         \o SpawnsOf(Tail(cs))

\* A step of a main loop, of any algorithm: the steps that reconcile.
LoopStep == pc = "loop" /\ pc' # "done"

C19_ReturnedResultImmutable ==
    \A i \in 1..Len(returned) :
        ReadResult(returned[i].result) = returned[i].as_returned

\* A position inside the grid: 0 <= x < width and 0 <= y < height.
InBounds(pos) == pos \in Cells

\* Grid.__init__ has run.
Constructed == pc # "construct"

\* C20: constructing a Grid whose start or target lies out of bounds fails
\* at once with an error and yields no Grid, so no search runs on it;
\* construction with both positions in bounds succeeds.
C20_ConstructionValidates ==
    Constructed =>
        IF InBounds(start) /\ InBounds(target)
        THEN exception # "ValueError"
        ELSE /\ pc = "raised" /\ exception = "ValueError"
             /\ explored = {} /\ frontier_history = <<>> /\ result = EmptyResult

\* C20 witness: construction failed on a target out of bounds although the
\* start is in bounds.
C20_Witness ==
    /\ pc = "raised" /\ exception = "ValueError"
    /\ InBounds(start) /\ ~InBounds(target)

\* is_blocked(start) or is_blocked(target).
EndpointBlocked ==
    IsBlocked(start, dynamic_obstacles) \/ IsBlocked(target, dynamic_obstacles)

NeighbourOffsets ==
    << <<0, -1>>, <<1, 0>>, <<0, 1>>, <<1, 1>>, <<-1, 0>>, <<-1, -1>>, <<1, -1>>, <<-1, 1>> >>

\* The place of the position q among the eight neighbours of pos in that order.
OffsetRank(pos, q) ==
    CHOOSE k \in 1..Len(NeighbourOffsets) :
        q = <<pos[1] + NeighbourOffsets[k][1], pos[2] + NeighbourOffsets[k][2]>>

\* The in-bounds positions among the eight neighbours of pos that neither a
\* wall nor a dynamic obstacle blocks.
OpenNeighbours(pos) ==
    {q \in Cells : Adjacent(pos, q) /\ q \notin walls /\ q \notin dynamic_obstacles}

\* C22: get_neighbors(pos) returns exactly the in-bounds, currently unblocked
\* positions among the 8 neighbours of pos, each at most once, in the order
\* North, East, South, Southeast, West, Northwest, Northeast, Southwest.
C22_NeighboursInOrder ==
    neighbors_call # NoCall =>
        LET pos == neighbors_call.pos
            r   == neighbors_call.neighbors
        IN  /\ Range(r) = OpenNeighbours(pos)
            /\ \A i, j \in 1..Len(r) :
                   i < j => OffsetRank(pos, r[i]) < OffsetRank(pos, r[j])

\* C22 witness: a call on a grid with a wall and an obstacle returned three or
\* more neighbours and left out a blocked one and one out of bounds.
C22_Witness ==
    /\ neighbors_call # NoCall
    /\ walls # {} /\ dynamic_obstacles # {}
    /\ Len(neighbors_call.neighbors) >= 3
    /\ \E q \in walls \cup dynamic_obstacles : Adjacent(neighbors_call.pos, q)
    /\ neighbors_call.pos \in Cells
    /\ neighbors_call.pos[2] = 0

\* C23: for each of the six algorithms, when search() returns found = True the
\* returned explored set is non-empty and contains the start position.
C23_StartExploredWhenFound ==
    ReturnedFound => (result.explored # {} /\ start \in result.explored)

\* C23 witness: IDDFS found the target in its second or a later iteration,
\* in a run in which an obstacle spawned, and returned start among three or
\* more explored positions.
C23_Witness ==
    /\ ReturnedFound /\ alg = "IDDFS" /\ limit >= 2
    /\ dynamic_obstacles # {}
    /\ start \in result.explored
    /\ Cardinality(result.explored) >= 3

\* The positions a step expands: those it adds to an explored set.
Expanded ==
    (explored' \ explored) \cup (forward_explored' \ forward_explored)
        \cup (backward_explored' \ backward_explored)

\* C24: in every frontier-based algorithm, under any obstacle spawns, no
\* position is popped and expanded while it is blocked; in Bidirectional an
\* obstacle spawned in either reconciliation call of a step is purged from
\* both frontiers before either pop of that step.
C24_NeverExpandsBlocked ==
    [][(FrontierBased /\ pc = "loop") =>
          \A p \in Expanded : ~IsBlocked(p, dynamic_obstacles')]_vars

\* C25: in BFS, DFS and DLS the in-frontier set always equals the set of
\* positions pending in the frontier: a position that obstacle reconciliation
\* removes from the frontier is no longer in the in-frontier set.
C25_InFrontierIsFrontier ==
    (alg \in {"BFS", "DFS", "DLS"} /\ pc = "loop") =>
        in_frontier = NodesOf(frontier, FrontierFormat)

\* C26: within one run of BFS, DFS, UCS or DLS each position is expanded at
\* most once, and within one run of Bidirectional each position is expanded
\* at most once per direction, under any obstacle spawns.
C26_NoReExploration ==
    FrontierBased =>
        \A i, j \in 1..Len(expansions) : i # j => expansions[i] # expansions[j]

\* C26 witness: Bidirectional search has expanded one position in both
\* directions, in a run in which an obstacle spawned.
C26_Witness ==
    /\ alg = "BIDIR" /\ dynamic_obstacles # {}
    /\ \E i, j \in 1..Len(expansions) :
           /\ expansions[i][1] = "forward" /\ expansions[j][1] = "backward"
           /\ expansions[i][2] = expansions[j][2]

\* The parent map pm2 keeps every entry of pm, and each entry it adds has one
\* of the positions `by` as its value.
ParentsWrittenOnce(pm, pm2, by) ==
    /\ \A p \in DOMAIN pm : p \in DOMAIN pm2 /\ pm2[p] = pm[p]
    /\ \A p \in (DOMAIN pm2) \ (DOMAIN pm) : pm2[p] \in by

\* C27: in BFS, DFS, DLS and both directions of Bidirectional the parent of a
\* position is written once, when the position is first discovered, with the
\* position being expanded at that moment, and is never overwritten during
\* the run.
C27_ParentWrittenOnce ==
    [][(alg \in {"BFS", "DFS", "DLS", "BIDIR"} /\ pc = "loop") =>
          /\ ParentsWrittenOnce(parent_map, parent_map', Expanded)
          /\ ParentsWrittenOnce(forward_parent, forward_parent',
                                forward_explored' \ forward_explored)
          /\ ParentsWrittenOnce(backward_parent, backward_parent',
                                backward_explored' \ backward_explored)]_vars

\* The entry the heappop of a UCS step takes from the reconciled frontier f is
\* the least of f by (cost, counter).
PopIsLeast(f) ==
    f # <<>> => \A i \in 1..Len(f) : ~ItemLess(f[i], HeapPop(f).item)

\* The cost recorded in the entry the heappop of a UCS step takes from f is at
\* least the cost of every position expanded before.
PopCostNotBelow(f, expl, cm) ==
    f # <<>> => \A e \in expl : cm[e] <= HeapPop(f).item[1]

\* C28: UCS, under any obstacle spawns, expands positions in nondecreasing
\* order of accumulated cost, and among frontier entries of equal cost pops
\* the entry with the smaller insertion counter first.
C28_UCSPopOrder ==
    [][(alg = "UCS" /\ pc = "loop" /\ pc' # "done") =>
          /\ PopIsLeast(checks'[1].after.frontier)
          /\ PopCostNotBelow(checks'[1].after.frontier, explored, cost_map)]_vars

\* The entry the heappop of the latest UCS step took: from the frontier its
\* reconciliation call left.
LastPop(cs) == HeapPop(cs[1].after.frontier)

\* The popped entry is one that lazy deletion discards: its position is
\* explored already, or its cost is above the best known cost of its position.
Discarded(item, expl, cm) ==
    item[3] \in expl \/ (item[3] \in DOMAIN cm /\ item[1] > cm[item[3]])

\* The entries the neighbour loop of a step pushed: those with a counter from
\* the counter of the step's start on.
Pushed(f, cnt) == {f[i] : i \in {k \in 1..Len(f) : f[k][2] >= cnt}}

\* C29: UCS lazy deletion.  A popped entry whose cost is above the best known
\* cost of its position, or whose position is explored, is discarded without
\* expansion; an entry is pushed, and the cost and the parent of its position
\* are set, only for a neighbour without recorded cost or with a strictly
\* smaller new cost; and an entry that is not popped stays in the heap: the
\* neighbour loop removes none, superseded or not.
C29_UCSLazyDeletion ==
    [][(alg = "UCS" /\ pc = "loop" /\ pc' \notin {"done", "raised"}) =>
          LET pop  == LastPop(checks')
              item == pop.item
          IN  /\ Discarded(item, explored, cost_map) =>
                     /\ explored' = explored /\ expansions' = expansions
                     /\ cost_map' = cost_map /\ parent_map' = parent_map
                     /\ frontier' = pop.heap /\ counter' = counter
              /\ \A e \in Pushed(frontier', counter) :
                     /\ e[3] \notin DOMAIN cost_map \/ e[1] < cost_map[e[3]]
                     /\ e[1] = item[1] + 1
                     /\ cost_map'[e[3]] = e[1] /\ parent_map'[e[3]] = item[3]
              /\ \A n \in DOMAIN cost_map' :
                     (n \notin DOMAIN cost_map \/ cost_map'[n] # cost_map[n]) =>
                         \E e \in Pushed(frontier', counter) : e[3] = n
              /\ Range(pop.heap) \subseteq Range(frontier')]_vars

\* C29 witness: the latest UCS step popped an entry of a position that was
\* explored already and discarded it, while the heap held further entries.
C29_Witness ==
    /\ alg = "UCS" /\ pc = "loop" /\ Len(checks) = 1
    /\ checks[1].after.frontier # <<>>
    /\ LastPop(checks).item[3] \in checks[1].before.explored
    /\ frontier = LastPop(checks).heap
    /\ frontier # <<>>

\* The position the latest expansion of the run expanded.
LastExpanded == expansions[Len(expansions)][2]

\* The neighbours that the expansion of n enqueued and that wait in the
\* frontier, in the environment's neighbour order: a parent is written at
\* enqueueing only.
EnqueuedBy(n) ==
    SelectSeq(GetNeighbors(n, dynamic_obstacles),
              LAMBDA q : q \in Range(frontier) /\ Get(parent_map, q) = n)

\* C30: DFS without dynamic obstacles pushes the neighbours of the expanded
\* position in reverse of the environment's neighbour order: the next
\* position expanded after a position n is the first neighbour of n, in the
\* environment's order, among the neighbours that n enqueued.
C30_DFSFirstNeighbourNext ==
    [][(alg = "DFS" /\ pc = "loop" /\ expansions # <<>>
            /\ EnqueuedBy(LastExpanded) # <<>>) =>
          expansions' = Append(expansions, <<"main", EnqueuedBy(LastExpanded)[1]>>)]_vars

\* C30 witness: DFS expanded a position and then the first of two or more
\* neighbours it had enqueued; a later one still waits in the frontier.
C30_Witness ==
    /\ alg = "DFS" /\ pc = "loop" /\ Len(expansions) >= 2
    /\ LET prev == expansions[Len(expansions) - 1][2]
           nbrs == GetNeighbors(prev, dynamic_obstacles)
       IN  /\ Get(parent_map, LastExpanded) = prev
           /\ \E i, j \in 1..Len(nbrs) :
                  /\ i < j /\ nbrs[i] = LastExpanded
                  /\ nbrs[j] \in Range(frontier) /\ Get(parent_map, nbrs[j]) = prev

\* The entry the pop of a DepthLimitedSearch iteration takes from the frontier
\* that the reconciliation call of cs left: the last one.
DLSPopped(cs) == cs[1].after.frontier[Len(cs[1].after.frontier)]

\* The entries a DepthLimitedSearch iteration appended to the frontier `rest`
\* that its pop left, when `f` is the frontier after the iteration.
DLSEnqueued(rest, f) == SubSeq(f, Len(rest) + 1, Len(f))

\* An iteration of the while loop of DepthLimitedSearch.search that pops.
DLSPopStep == alg = "DLS" /\ pc = "loop" /\ pc' \in {"loop", "walk"}

\* C31: DLS never holds a frontier entry of a depth above depth_limit: an
\* iteration appends entries only when the popped entry's depth is below
\* depth_limit, each one level deeper than the popped one; a popped target is
\* reported found whatever its depth, depth_limit included (its parent chain
\* ends within depth_limit links, so its reconstruction returns); and a result
\* with found = True carries a path of at most depth_limit steps.
C31_DLSDepthLimit ==
    [][alg = "DLS" =>
          /\ \A i \in 1..Len(frontier) : frontier[i][2] <= depth_limit
          /\ \A i \in 1..Len(frontier') : frontier'[i][2] <= depth_limit
          /\ DLSPopStep =>
                 LET f1    == checks'[1].after.frontier
                     item  == DLSPopped(checks')
                     rest  == SubSeq(f1, 1, Len(f1) - 1)
                     added == DLSEnqueued(rest, frontier')
                 IN  /\ Len(frontier') >= Len(rest)
                     /\ SubSeq(frontier', 1, Len(rest)) = rest
                     /\ added # <<>> =>
                            /\ item[2] < depth_limit
                            /\ \A i \in 1..Len(added) : added[i][2] = item[2] + 1
                     /\ item[1] = target =>
                            /\ pc' = "walk"
                            /\ item[2] <= depth_limit
                            /\ ChainEnds(parent_map', walk_pos', item[2] + 1)
          /\ (pc' = "walk") =>
                 /\ Len(path') <= depth_limit + 1
                 /\ ChainEnds(parent_map', walk_pos', depth_limit + 1 - Len(path'))
          /\ (pc' = "done" /\ result'.found) => Steps(result'.path) <= depth_limit]_vars

\* C31 witness: DLS with a positive depth limit returned a path of exactly
\* depth_limit steps, in a run in which an obstacle spawned: the target was
\* popped at the depth of the limit.
C31_Witness ==
    /\ alg = "DLS" /\ pc = "done" /\ result.found
    /\ depth_limit >= 1
    /\ Steps(result.path) = depth_limit
    /\ dynamic_obstacles # {}

\* An iteration of the for loop of IterativeDeepeningDFS.search has run: the
\* loop goes on to the next limit, or the iteration found the target.
IDDFSIterated == alg = "IDDFS" /\ pc = "loop" /\ pc' \in {"loop", "walk"}

\* C32: IDDFS runs its iterations with the limits 1, 2, 3, ... up to
\* 2 * max(width, height), each one above the last.  Every iteration starts
\* from an empty explored set and a parent map that holds only start, without
\* parent: its first snapshot is {start}, and it leaves a parent map whose keys
\* are the positions it explored.  An iteration that does not reach the target
\* is followed by the next limit; the first one that reaches it ends the loop
\* with found = True; found = False is returned only after the iteration with
\* the greatest limit has failed.
C32_IDDFSIterations ==
    [][alg = "IDDFS" =>
          /\ (pc = "loop" /\ frontier_history = <<>>) => limit = 1
          /\ limit \in 1..(2 * Max(width, height) + 1)
          /\ IDDFSIterated =>
                 /\ limit <= 2 * Max(width, height)
                 /\ frontier_history'[Len(frontier_history) + 1] = {start}
                 /\ start \in explored'
                 /\ DOMAIN parent_map' = explored'
                 /\ parent_map'[start] = None
                 /\ explored' \subseteq all_explored'
                 /\ IF target \in explored'
                    THEN pc' = "walk" /\ walk_pos' = target /\ limit' = limit
                    ELSE pc' = "loop" /\ limit' = limit + 1
          /\ (pc = "loop" /\ pc' = "done") =>
                 /\ limit = 2 * Max(width, height) + 1
                 /\ ~result'.found
                 /\ target \notin explored
          /\ (pc = "walk" /\ pc' = "done") =>
                 /\ result'.found
                 /\ target \in explored]_vars

\* C32 witness: IDDFS returned found = True from an iteration with a limit of
\* 2 or more, after the iterations with the smaller limits explored positions
\* that the last iteration did not.
C32_Witness ==
    /\ alg = "IDDFS" /\ pc = "done" /\ result.found
    /\ limit >= 2
    /\ all_explored \ explored # {}
    /\ DOMAIN parent_map = explored

\* C33: IDDFS on a grid without obstacle spawns returns found = True whenever
\* the target can be reached from start, that is whenever BFS on the same
\* grid finds it.
C33_IDDFSFindsReachable ==
    (alg = "IDDFS" /\ pc = "done" /\ ~spawn_enabled /\ ShortestSteps >= 0) =>
        result.found

\* The recursive calls one IDDFS iteration made, as a step shows them: each
\* call marks one more position explored.
RecursiveCalls == Cardinality(explored')

\* C34: IDDFS reconciles once for every ten positions an iteration explores:
\* at the recursive calls entered with 0, 10, 20, ... explored positions and at
\* no other call (each call explores one position and records one snapshot).
\* Such a call appends what it spawned to the obstacle log, if anything, and
\* leaves the explored set and the parent map as they were.
C34_IDDFSPeriodicReconciliation ==
    [][IDDFSIterated =>
          /\ Len(frontier_history') = Len(frontier_history) + RecursiveCalls
          /\ \A i \in 1..RecursiveCalls :
                 Cardinality(frontier_history'[Len(frontier_history) + i]) = i
          /\ Len(checks') = (RecursiveCalls + 9) \div 10
          /\ \A j \in 1..Len(checks') :
                 LET c == checks'[j]
                 IN  /\ Cardinality(c.before.explored) = 10 * (j - 1)
                     /\ c.after.explored = c.before.explored
                     /\ c.after.parent_map = c.before.parent_map
                     /\ c.after.dynamic_obstacles_encountered =
                            c.before.dynamic_obstacles_encountered
                                \o (IF c.spawned = None THEN <<>> ELSE <<c.spawned>>)
                     /\ c.before.explored \subseteq explored'
                     /\ DOMAIN c.before.parent_map \subseteq DOMAIN parent_map'
          /\ dynamic_obstacles_encountered' =
                 dynamic_obstacles_encountered \o SpawnsOf(checks')]_vars

\* C34 witness: an IDDFS iteration reconciled a second time, at the call it
\* entered with ten explored positions, and that call spawned an obstacle.
C34_Witness ==
    /\ alg = "IDDFS" /\ Len(checks) = 2
    /\ Cardinality(checks[2].before.explored) = 10
    /\ checks[2].spawned # None
    /\ Cardinality(explored) >= 11
    /\ dynamic_obstacles_encountered = <<checks[2].spawned>>

\* The neighbours of the position at the head of the frontier f that its
\* expansion finds in the opposite direction's explored set, in the order of
\* the neighbour loop; none when f is empty or its head is skipped as explored.
SeenOpposite(f, own, opposite, obst) ==
    IF f = <<>> \/ Head(f) \in own THEN <<>>
    ELSE SelectSeq(GetNeighbors(Head(f), obst), LAMBDA n : n \in opposite)

\* One iteration of the Bidirectional main loop stops at the first meeting
\* point: the first neighbour the forward expansion finds in backward_explored
\* ends the loop before the backward pop; otherwise the first neighbour the
\* backward expansion finds in forward_explored ends it; otherwise the loop
\* goes on without a meeting point.
StopsAtFirstMeeting ==
    (alg = "BIDIR" /\ pc = "loop" /\ pc' \in {"loop", "walk"}) =>
        LET f1     == checks'[1].after.frontier
            b1     == checks'[2].after.frontier
            fwSeen == SeenOpposite(f1, forward_explored, backward_explored,
                                   dynamic_obstacles')
            bwSeen == SeenOpposite(b1, backward_explored, forward_explored',
                                   dynamic_obstacles')
        IN  IF fwSeen # <<>>
            THEN /\ meeting_point' = fwSeen[1]
                 /\ pc' = "walk"
                 /\ backward_frontier' = b1
                 /\ backward_explored' = backward_explored
            ELSE IF bwSeen # <<>>
            THEN /\ meeting_point' = bwSeen[1]
                 /\ pc' = "walk"
            ELSE /\ meeting_point' = None
                 /\ pc' = "loop"

\* Once the main loop of Bidirectional search is left, nothing is popped,
\* enqueued or explored any more and the meeting point stays.
NoPopAfterMeeting ==
    (alg = "BIDIR" /\ pc # "loop") =>
        UNCHANGED <<forward_frontier, backward_frontier, forward_explored,
                    backward_explored, explored, meeting_point>>

\* Bidirectional search returns found = False only from a loop test that
\* finds both frontiers empty, with no meeting point; with a meeting point it
\* returns found = True.
NotFoundOnlyWhenExhausted ==
    (alg = "BIDIR" /\ pc' = "done" /\ pc # "done") =>
        IF result'.found
        THEN meeting_point # None /\ pc = "walk_back"
        ELSE /\ pc = "loop"
             /\ forward_frontier = <<>> /\ backward_frontier = <<>>
             /\ meeting_point = None

\* A meeting point has been seen.
MeetingSeen == alg = "BIDIR" /\ meeting_point # None

\* C35: Bidirectional search stops at the first meeting point: the first
\* neighbour an expansion finds in the opposite explored set becomes the
\* meeting point, no position is popped from either frontier afterwards, and
\* the search then returns found = True; found = False is returned only when
\* both frontiers are empty and no meeting point was seen.
C35_StopsAtFirstMeeting ==
    /\ [][StopsAtFirstMeeting /\ NoPopAfterMeeting /\ NotFoundOnlyWhenExhausted]_vars
    /\ (MeetingSeen ~> ReturnedFound)

\* No position occurs twice in the sequence p.
NoRepeats(p) == \A i, j \in 1..Len(p) : i # j => p[i] # p[j]

\* C36: the path Bidirectional search returns (the forward chain from start to
\* the meeting point, then the backward chain from the backward parent of the
\* meeting point to target) holds every position at most once and the meeting
\* point exactly once, under any obstacle spawns.
C36_BidirPathNoRepeats ==
    (alg = "BIDIR" /\ pc = "done" /\ result.found) =>
        /\ NoRepeats(result.path)
        /\ Count(result.path, meeting_point) = 1

\* C37: when start equals target, search() of each of the six algorithms
\* returns found = True with the path [start].
C37_StartIsTarget ==
    (start = target /\ pc = "done") =>
        /\ result.found
        /\ result.path = <<start>>

\* The number of parent links from p back to a position without parent in
\* the map pm, or -1 when more than n links do not reach one.
RECURSIVE ChainSteps(_, _, _)
ChainSteps(pm, p, n) ==
    IF Get(pm, p) = None THEN 0
    ELSE IF n = 0 THEN -1
    ELSE LET rest == ChainSteps(pm, Get(pm, p), n - 1)
         IN  IF rest = -1 THEN -1 ELSE rest + 1

\* Every cost of the cost map cm is the number of parent links of its
\* position back to start in the parent map pm.
CostsAreChainSteps(cm, pm) ==
    \A p \in DOMAIN cm : cm[p] = ChainSteps(pm, p, Cardinality(DOMAIN pm))

\* C38: in UCS, under any obstacle spawns, the cost the cost map records for
\* a position is the number of steps of its parent chain back to start; the
\* cost with which the target is popped is the number of steps of the path
\* that is then returned, len(path) - 1.
C38_UCSCostIsChainLength ==
    [][alg = "UCS" =>
          /\ CostsAreChainSteps(cost_map, parent_map)
          /\ CostsAreChainSteps(cost_map', parent_map')
          /\ (pc = "loop" /\ pc' = "walk") =>
                 /\ LastPop(checks').item[3] = target
                 /\ LastPop(checks').item[1] =
                        ChainSteps(parent_map', target, Cardinality(DOMAIN parent_map'))
                 /\ LastPop(checks').item[1] = cost_map'[target]
          /\ (pc' = "done" /\ result'.found) =>
                 Steps(result'.path) = cost_map'[target]]_vars

\* The SearchResult r is consistent: found goes with a path that is not
\* empty, and total_nodes_explored counts the explored set of the result.
ConsistentResult(r) ==
    /\ r.found <=> r.path # <<>>
    /\ r.total_nodes_explored = Cardinality(r.explored)

\* The positions the snapshots of the sequence h hold.
SnapshotUnion(h) == UNION Range(h)

\* C39: every SearchResult an algorithm returns has found = True exactly when
\* its path is not empty, and its total_nodes_explored is the cardinality of
\* its explored set; that set is the explored set of the algorithm when it
\* returns, and for IDDFS the union of the explored sets of all the
\* iterations it ran (every position one of its snapshots holds).
C39_ResultConsistent ==
    /\ pc = "done" =>
           /\ ConsistentResult(result)
           /\ result.explored = (IF alg = "IDDFS" THEN all_explored ELSE explored)
           /\ (alg = "IDDFS" /\ returned = <<>>) =>
                  /\ result.explored = SnapshotUnion(frontier_history)
                  /\ explored \subseteq result.explored
    /\ \A i \in 1..Len(returned) : ConsistentResult(returned[i].result)

\* C39 witness: IDDFS returned found = True after more than one iteration, and
\* the result counts positions that the last iteration did not explore.
C39_Witness ==
    /\ alg = "IDDFS" /\ pc = "done" /\ result.found
    /\ result.path # <<>>
    /\ limit >= 2
    /\ result.total_nodes_explored > Cardinality(explored)
    /\ result.total_nodes_explored = Cardinality(all_explored)

\* A position (x, y) as a Python value: a pair of two ints.
PyPosition(v) == IsTupleOfLen(v, 2) /\ IsInt(v.items[1]) /\ IsInt(v.items[2])

\* The three frontier entry shapes: (cost, counter, (x, y)) of UCS,
\* ((x, y), depth) of DLS, and the plain (x, y) of the other algorithms.
PyUCSEntry(v) ==
    /\ IsTupleOfLen(v, 3)
    /\ IsInt(v.items[1]) /\ IsInt(v.items[2]) /\ PyPosition(v.items[3])

PyDLSEntry(v) == IsTupleOfLen(v, 2) /\ PyPosition(v.items[1]) /\ IsInt(v.items[2])

\* A frontier item of the search model, of shape fmt, as a Python value.
PyOfPosition(pos) == PyTuple(<<PyInt(pos[1]), PyInt(pos[2])>>)

PyOfItem(item, fmt) ==
    CASE fmt = "ucs"   -> PyTuple(<<PyInt(item[1]), PyInt(item[2]), PyOfPosition(item[3])>>)
      [] fmt = "dls"   -> PyTuple(<<PyOfPosition(item[1]), PyInt(item[2])>>)
      [] fmt = "plain" -> PyOfPosition(item)

\* The frontier items of the search model over the integers of the items.
ModelItems(fmt) ==
    LET ints == 0..MaxInt
        cells == ints \X ints
    IN  CASE fmt = "ucs"   -> ints \X ints \X cells
          [] fmt = "dls"   -> cells \X ints
          [] fmt = "plain" -> cells

====
